---------------------------- MODULE Spec2Model ----------------------------
(***************************************************************************)
(* Model of the slog/gorm colour logger:                                   *)
(*   - handlerTextColor, the dev renderer      (src/unnamed/part_000)      *)
(*   - HandlerMiddleware, the context decorator (src/logger.go:21-123)     *)
(*   - gormLogger, the gorm trace adapter       (src/logger.go:125-257)    *)
(*                                                                         *)
(* A Go string is a sequence of one-character strings; the escape byte     *)
(* 0x1b is the element "ESC".  A Go byte buffer is the same kind of        *)
(* sequence.                                                               *)
(***************************************************************************)
EXTENDS Integers, Sequences, FiniteSets, TLC

(***************************************************************************)
(* Bounds of the model.                                                    *)
(***************************************************************************)
MaxHandlers == 4
RenderHandlers == 2
ConcHandlers == 2
MaxCalls == 1
NumGoroutines == 2
MaxMiddlewares == 3
MaxForwards == 1
MaxTraces == 1
MaxClock == 1
CowHandlers == 5
MaxLoggers == 3
MaxSetDefaults == 1
GormLoggers == 1
MaxFilterCalls == 1

(***************************************************************************)
(* Generic sequence helpers.                                               *)
(***************************************************************************)
Min(a, b) == IF a <= b THEN a ELSE b

Last(s) == s[Len(s)]

Front(s) == SubSeq(s, 1, Len(s) - 1)

\* s[from..] with Go slicing semantics on 1-based positions
Drop(s, n) == SubSeq(s, n + 1, Len(s))

Take(s, n) == SubSeq(s, 1, n)

\* the concatenation of ss[lo..hi], by halves
RECURSIVE FlattenRange(_, _, _)
FlattenRange(ss, lo, hi) ==
    IF lo > hi THEN <<>>
    ELSE IF lo = hi THEN ss[lo]
    ELSE FlattenRange(ss, lo, (lo + hi) \div 2) \o FlattenRange(ss, (lo + hi) \div 2 + 1, hi)

Flatten(ss) == FlattenRange(ss, 1, Len(ss))

HasPrefix(s, p) == Len(s) >= Len(p) /\ Take(s, Len(p)) = p

HasSuffix(s, p) == Len(s) >= Len(p) /\ Drop(s, Len(s) - Len(p)) = p

\* strings.Contains
Contains(s, p) == \E i \in 0..(Len(s) - Len(p)) : SubSeq(s, i + 1, i + Len(p)) = p

\* strings.LastIndex of a single character, 0 when absent (1-based otherwise)
LastIndexOf(s, c) ==
    IF \E i \in 1..Len(s) : s[i] = c
    THEN CHOOSE i \in 1..Len(s) : s[i] = c /\ \A j \in (i + 1)..Len(s) : s[j] # c
    ELSE 0

\* strings.Index of a single character, 0 when absent
IndexOf(s, c) ==
    IF \E i \in 1..Len(s) : s[i] = c
    THEN CHOOSE i \in 1..Len(s) : s[i] = c /\ \A j \in 1..(i - 1) : s[j] # c
    ELSE 0

\* strings.Split(s, sep) for a one-character separator: always >= 1 element
RECURSIVE Split(_, _)
Split(s, c) ==
    LET i == IndexOf(s, c)
    IN  IF i = 0 THEN <<s>> ELSE <<Take(s, i - 1)>> \o Split(Drop(s, i), c)

\* strings.ReplaceAll(s, old, new), old non-empty
RECURSIVE ReplaceAll(_, _, _)
ReplaceAll(s, old, new) ==
    IF ~Contains(s, old) THEN s
    ELSE IF Take(s, Len(old)) = old
         THEN new \o ReplaceAll(Drop(s, Len(old)), old, new)
         ELSE <<Head(s)>> \o ReplaceAll(Tail(s), old, new)

Digits == <<"0", "1", "2", "3", "4", "5", "6", "7", "8", "9">>

DigitSet == {Digits[i] : i \in 1..10}

RECURSIVE NatStr(_)
NatStr(n) == IF n < 10 THEN <<Digits[n + 1]>> ELSE NatStr(n \div 10) \o <<Digits[(n % 10) + 1]>>

\* strconv.Itoa / strconv.AppendInt(.., 10)
Itoa(n) == IF n < 0 THEN <<"-">> \o NatStr(-n) ELSE NatStr(n)

(***************************************************************************)
(* strconv.Atoi on a 64-bit int.  A Go int is [n, big]: n is its value     *)
(* when it has at most SmallDigits decimal digits, and otherwise big holds *)
(* its decimal digits, sign first, and n is 0.  Atoi reads the text after  *)
(* the sign byte by byte and stops at the first byte that is no digit      *)
(* (syntax error) or that takes the number read so far beyond a uint64     *)
(* (range error); a number read to the end is then tested against int64.   *)
(***************************************************************************)
SmallDigits == 9

\* the digits of math.MaxInt64 and of -math.MinInt64
MaxInt64Digits == <<"9", "2", "2", "3", "3", "7", "2", "0", "3", "6", "8", "5", "4", "7", "7", "5", "8", "0", "7">>

MinInt64Digits == <<"9", "2", "2", "3", "3", "7", "2", "0", "3", "6", "8", "5", "4", "7", "7", "5", "8", "0", "8">>

GoInt(n) == [n |-> n, big |-> <<>>]

\* the text after an optional sign
AtoiBody(s) == IF s # <<>> /\ Head(s) \in {"+", "-"} THEN Tail(s) ELSE s

\* the digits of math.MaxUint64
MaxUint64Digits == <<"1", "8", "4", "4", "6", "7", "4", "4", "0", "7", "3", "7", "0", "9", "5", "5", "1", "6", "1", "5">>

\* digits without leading zeros
RECURSIVE StripZeros(_)
StripZeros(d) == IF Len(d) > 1 /\ Head(d) = "0" THEN StripZeros(Tail(d)) ELSE d

DigitOf(c) == (CHOOSE i \in 1..10 : Digits[i] = c) - 1

\* a > b for digit sequences without leading zeros
DigitsGreater(a, b) ==
    \/ Len(a) > Len(b)
    \/ /\ Len(a) = Len(b)
       /\ \E i \in 1..Len(a) :
              /\ DigitOf(a[i]) > DigitOf(b[i])
              /\ \A j \in 1..(i - 1) : a[j] = b[j]

\* the first k bytes of b are digits and their number exceeds a uint64
AtoiOverflowAt(b, k) ==
    /\ \A i \in 1..k : b[i] \in DigitSet
    /\ DigitsGreater(StripZeros(Take(b, k)), MaxUint64Digits)

\* the byte ParseUint stops at, 0 when it reads b to the end
AtoiStop(b) ==
    LET stops == {k \in 1..Len(b) : b[k] \notin DigitSet \/ AtoiOverflowAt(b, k)}
    IN  IF stops = {} THEN 0 ELSE CHOOSE k \in stops : \A j \in stops : k <= j

\* Atoi reports no syntax error: there is a byte after the sign and the scan
\* did not stop at a byte that is no digit
AtoiSyntax(s) ==
    /\ AtoiBody(s) # <<>>
    /\ AtoiStop(AtoiBody(s)) # 0 => AtoiBody(s)[AtoiStop(AtoiBody(s))] \in DigitSet

\* Atoi reports a range error: the scan stopped on overflow, or the number
\* read does not fit an int64
AtoiRange(s) ==
    /\ AtoiSyntax(s)
    /\ \/ AtoiStop(AtoiBody(s)) # 0
       \/ DigitsGreater(StripZeros(AtoiBody(s)),
                        IF Head(s) = "-" THEN MinInt64Digits ELSE MaxInt64Digits)

\* strconv.Atoi returns a nil error
AtoiOk(s) == AtoiSyntax(s) /\ ~AtoiRange(s)

RECURSIVE DigitsVal(_)
DigitsVal(s) ==
    IF s = <<>> THEN 0
    ELSE 10 * DigitsVal(Front(s)) + DigitOf(Last(s))

\* the int strconv.Atoi returns: 0 on a syntax error, the nearest int64 on a
\* range error
AtoiVal(s) ==
    LET neg == s # <<>> /\ Head(s) = "-"
        d == IF AtoiRange(s) THEN (IF neg THEN MinInt64Digits ELSE MaxInt64Digits)
             ELSE StripZeros(AtoiBody(s))
    IN  IF ~AtoiSyntax(s) THEN GoInt(0)
        ELSE IF Len(d) <= SmallDigits THEN GoInt(IF neg THEN -DigitsVal(d) ELSE DigitsVal(d))
        ELSE [n |-> 0, big |-> IF neg THEN <<"-">> \o d ELSE d]

Pad2(n) == IF n < 10 THEN <<"0">> \o NatStr(n) ELSE NatStr(n)


(***************************************************************************)
(* Path and function-name reductions.                                      *)
(***************************************************************************)
\* filepath.Split: everything up to and including the last '/', and the rest
SplitDir(p) == Take(p, LastIndexOf(p, "/"))

SplitFile(p) == Drop(p, LastIndexOf(p, "/"))

RECURSIVE StripSlashes(_)
StripSlashes(p) == IF p # <<>> /\ Last(p) = "/" THEN StripSlashes(Front(p)) ELSE p

\* filepath.Base
Base(p) ==
    IF p = <<>> THEN <<".">>
    ELSE LET q == StripSlashes(p)
         IN  IF q = <<>> THEN <<"/">> ELSE Drop(q, LastIndexOf(q, "/"))

\* path.Clean over the components of a path: "." and "" vanish, ".." pops
RECURSIVE CleanParts(_, _, _)
CleanParts(parts, rooted, acc) ==
    IF parts = <<>> THEN acc
    ELSE LET c == Head(parts)
         IN  IF c = <<>> \/ c = <<".">> THEN CleanParts(Tail(parts), rooted, acc)
             ELSE IF c = <<".", ".">>
                  THEN IF acc # <<>> /\ Last(acc) # <<".", ".">>
                       THEN CleanParts(Tail(parts), rooted, Front(acc))
                       ELSE IF rooted THEN CleanParts(Tail(parts), rooted, acc)
                            ELSE CleanParts(Tail(parts), rooted, Append(acc, c))
                  ELSE CleanParts(Tail(parts), rooted, Append(acc, c))

RECURSIVE JoinParts(_)
JoinParts(parts) ==
    IF parts = <<>> THEN <<>>
    ELSE IF Len(parts) = 1 THEN Head(parts)
    ELSE Head(parts) \o <<"/">> \o JoinParts(Tail(parts))

Clean(p) ==
    IF p = <<>> THEN <<".">>
    ELSE LET rooted == Head(p) = "/"
             body == JoinParts(CleanParts(Split(p, "/"), rooted, <<>>))
         IN  IF rooted THEN <<"/">> \o body
             ELSE IF body = <<>> THEN <<".">> ELSE body

\* path.Join of two elements: empty elements are ignored, the rest is cleaned
Join(a, b) ==
    IF a = <<>> /\ b = <<>> THEN <<>>
    ELSE IF a = <<>> THEN Clean(b)
    ELSE IF b = <<>> THEN Clean(a)
    ELSE Clean(a \o <<"/">> \o b)

\* path.Join(filepath.Base(dir), file) after dir, file := filepath.Split(p)
ReducePath(p) == Join(Base(SplitDir(p)), SplitFile(p))

\* path.Ext: the suffix from the last '.' of the last '/'-separated element
Ext(p) ==
    LET elem == Drop(p, LastIndexOf(p, "/"))
        i == LastIndexOf(elem, ".")
    IN  IF i = 0 THEN <<>> ELSE Drop(elem, i - 1)

\* strings.Replace(s, ".", "", 1)
RemoveFirstDot(s) ==
    LET i == IndexOf(s, ".")
    IN  IF i = 0 THEN s ELSE Take(s, i - 1) \o Drop(s, i)

FuncMarker == <<"f", "u", "n", "c">>

RECURSIVE FuncNameWalk(_, _, _)
FuncNameWalk(arr, i, funcName) ==
    IF i < 1 THEN funcName
    ELSE IF HasPrefix(arr[i], FuncMarker) \/ AtoiOk(arr[i])
         THEN FuncNameWalk(arr, i - 1, <<".">> \o arr[i] \o funcName)
         ELSE arr[i] \o funcName

getFuncNameSlog(pathFunc) ==
    LET arr == Split(pathFunc, ".")
    IN  FuncNameWalk(arr, Len(arr), <<>>)

(***************************************************************************)
(* ANSI colour codes.                                                      *)
(***************************************************************************)
Reset == <<"ESC", "[", "0", "m">>

Red == <<"ESC", "[", "3", "1", "m">>

Faint == <<"ESC", "[", "9", "0", "m">>

Green == <<"ESC", "[", "3", "2", "m">>

Yellow == <<"ESC", "[", "3", "3", "m">>

Blue == <<"ESC", "[", "3", "4", "m">>

Magenta == <<"ESC", "[", "3", "5", "m">>

Cyan == <<"ESC", "[", "3", "6", "m">>

BrightGreen == <<"ESC", "[", "9", "2", "m">>

BrightYellow == <<"ESC", "[", "9", "3", "m">>

ansiEsc == "ESC"

(***************************************************************************)
(* Quoting.                                                                *)
(***************************************************************************)
\* A character is a one-character string or a named element: "ESC", "NUL",
\* "BEL", "BS", "VT", "FF" and "DEL" are the ASCII control bytes 0x1b, 0x00,
\* 0x07, 0x08, 0x0b, 0x0c and 0x7f; "U+00E9" (a letter), "U+00B5" (the micro
\* sign), "U+00A0" (a space) and "U+200B" (a format character) are runes
\* outside ASCII; "0xFF" is a byte that is not valid UTF-8.
ControlChars == {"NUL", "BEL", "BS", "\t", "\n", "VT", "FF", "\r"}

NonAscii == {"U+00E9", "U+00B5", "U+00A0", "U+200B", "0xFF"}

\* utf8.RuneError: what DecodeRuneInString gives for an invalid byte
RuneError == {"0xFF"}

\* unicode.IsSpace and unicode.IsPrint on the runes outside ASCII
IsSpace(r) == r = "U+00A0"

IsPrint(r) == r \in {"U+00E9", "U+00B5"}

\* unicode.IsLetter
Letters ==
    {"a", "b", "c", "d", "e", "f", "g", "h", "i", "j", "k", "l", "m", "n", "o",
     "p", "q", "r", "s", "t", "u", "v", "w", "x", "y", "z", "A", "B", "C", "D",
     "E", "F", "G", "H", "I", "J", "K", "L", "M", "N", "O", "P", "Q", "R", "S",
     "T", "U", "V", "W", "X", "Y", "Z", "U+00E9", "U+00B5"}

\* the safeSet table, indexed by an ASCII byte: true for the printable
\* characters except '"' and '\', for DEL and for ESC; the control characters
\* other than ESC have no entry
safeSet(b) == b \notin ({"\"", "\\"} \cup ControlChars)

needsQuoting(s) ==
    \/ Len(s) = 0
    \/ \E i \in 1..Len(s) :
           IF s[i] \notin NonAscii
           THEN s[i] # "\\" /\ (s[i] = " " \/ s[i] = "=" \/ ~safeSet(s[i]))
           ELSE s[i] \in RuneError \/ IsSpace(s[i]) \/ ~IsPrint(s[i])

\* strconv.Quote of one character
QuoteChar(c) ==
    CASE c = "\"" -> <<"\\", "\"">>
      [] c = "\\" -> <<"\\", "\\">>
      [] c = "\n" -> <<"\\", "n">>
      [] c = "\t" -> <<"\\", "t">>
      [] c = "\r" -> <<"\\", "r">>
      [] c = "BEL" -> <<"\\", "a">>
      [] c = "BS" -> <<"\\", "b">>
      [] c = "FF" -> <<"\\", "f">>
      [] c = "VT" -> <<"\\", "v">>
      [] c = "NUL" -> <<"\\", "x", "0", "0">>
      [] c = "ESC" -> <<"\\", "x", "1", "b">>
      [] c = "DEL" -> <<"\\", "x", "7", "f">>
      [] c = "0xFF" -> <<"\\", "x", "f", "f">>
      [] c = "U+00A0" -> <<"\\", "u", "0", "0", "a", "0">>
      [] c = "U+200B" -> <<"\\", "u", "2", "0", "0", "b">>
      [] OTHER -> <<c>>

Quote(s) == <<"\"">> \o Flatten([i \in 1..Len(s) |-> QuoteChar(s[i])]) \o <<"\"">>

\* cut with the ANSI-stripping predicate of appendString; it stops at a byte
\* that does not decode
RECURSIVE cut(_, _)
cut(s, inEscape) ==
    IF s = <<>> THEN <<>>
    ELSE IF Head(s) \in RuneError THEN <<>>
    ELSE IF Head(s) = ansiEsc THEN cut(Tail(s), TRUE)
    ELSE IF inEscape /\ Head(s) \in Letters THEN cut(Tail(s), FALSE)
    ELSE IF inEscape THEN cut(Tail(s), TRUE)
    ELSE <<Head(s)>> \o cut(Tail(s), FALSE)

\* appendString once the ANSI sequences are cut from s and q tells whether to quote
appendQuoted(s, q, color) ==
    IF color /\ q THEN ReplaceAll(Quote(s), <<"\\", "x", "1", "b">>, <<ansiEsc>>)
    ELSE IF ~color /\ q THEN Quote(s)
    ELSE s

\* the bytes appendString appends
appendString(s, quote, color) ==
    CHOOSE out \in {appendQuoted(s1, quote /\ needsQuoting(s1), color) :
                       s1 \in {IF quote /\ ~color THEN cut(s, FALSE) ELSE s}} : TRUE


(***************************************************************************)
(* Values carried by contexts and attributes.                              *)
(*   t = "nil" | "string" | "int64" | "uint64" | "bool" | "float64"        *)
(*       | "Duration" | "Time" | "Level" | "Source" | "*Source" | "slice"  *)
(*       | "Marshaler"                                                     *)
(*   a slog.Source keeps File in s, Line in n and Function in f; a pointer *)
(*   keeps the address it holds in addr, the nil pointer holding none      *)
(***************************************************************************)
Nil == [t |-> "nil", s |-> <<>>, n |-> 0, f |-> <<>>]

StrV(str) == [t |-> "string", s |-> str, n |-> 0, f |-> <<>>]

Int64V(num) == [t |-> "int64", s |-> <<>>, n |-> num, f |-> <<>>]

DurationV(ns) == [t |-> "Duration", s |-> <<>>, n |-> ns, f |-> <<>>]

\* slog.Source{Function: fn, File: file, Line: line} for a Go int line
SourceL(fn, file, line) ==
    [t |-> "Source", s |-> file, n |-> line.n, f |-> fn, big |-> line.big]

SourceV(fn, file, line) == SourceL(fn, file, GoInt(line))

\* &slog.Source{...} allocated at addr
SourcePtr(src, addr) ==
    [t |-> "*Source", s |-> src.s, n |-> src.n, f |-> src.f, big |-> src.big, addr |-> addr]

\* (*slog.Source)(nil)
NilSourcePtr == [t |-> "*Source", s |-> <<>>, n |-> 0, f |-> <<>>, big |-> <<>>, addr |-> <<>>]

\* the addresses the allocator hands out, in hexadecimal
Addrs == {<<"c", "0", "0", "0", "0", "1", "2", "1", "2", "0">>, <<"c", "0", "0", "0", "0", "9", "e", "0", "f", "0">>}

Uint64V(num) == [t |-> "uint64", s |-> <<>>, n |-> num, f |-> <<>>]

BoolV(b) == [t |-> "bool", s |-> <<>>, n |-> IF b THEN 1 ELSE 0, f |-> <<>>]

\* a time.Time in UTC without monotonic reading, sec seconds after the zero time
TimeV(sec) == [t |-> "Time", s |-> <<>>, n |-> sec, f |-> <<>>]

\* a slog.Level
LevelV(l) == [t |-> "Level", s |-> <<>>, n |-> l, f |-> <<>>]

\* a float64 by its shortest decimal form: 0.d1d2..dn * 10^dp with d1 and dn
\* not 0, no digits for zero; special is "NaN", "Inf" or empty
Float64V(neg, digits, dp, special) ==
    [t |-> "float64", s |-> digits, n |-> dp, f |-> special, neg |-> neg]

\* a value of a type with a MarshalText method, which returns text when out is
\* "ok", an error when it is "err", and panics with msg when it is "panic";
\* isNil tells a nil pointer
MarshalerV(text, out, msg, isNil) ==
    [t |-> "Marshaler", s |-> text, n |-> 0, f |-> msg, out |-> out, isNil |-> isNil]

\* a []any holding vals
SliceV(vals) == [t |-> "slice", s |-> <<>>, n |-> Len(vals), f |-> <<>>, elems |-> vals]

\* src.Line in decimal, and src.Line != 0
LineStr(src) == IF src.big # <<>> THEN src.big ELSE Itoa(src.n)

LineNonZero(src) == src.big # <<>> \/ src.n # 0

\* the context keys of logger.go
Source == <<"s", "o", "u", "r", "c", "e">>

Duration == <<"d", "u", "r", "a", "t", "i", "o", "n">>

Rows == <<"r", "o", "w", "s">>

Sql == <<"s", "q", "l">>

\* ctx.Value(key): a context is a function from the keys it carries to values
CtxValue(ctx, key) == IF key \in DOMAIN ctx THEN ctx[key] ELSE Nil

\* context.WithValue(ctx, key, val)
WithValue(ctx, key, val) ==
    [k \in (DOMAIN ctx) \cup {key} |-> IF k = key THEN val ELSE ctx[k]]

(***************************************************************************)
(* slog levels and slog.Level.String().                                    *)
(***************************************************************************)
LevelDebug == -4

LevelInfo == 0

LevelWarn == 4

LevelError == 8

LevelStr(base, val) ==
    IF val = 0 THEN base
    ELSE IF val > 0 THEN base \o <<"+">> \o NatStr(val)
    ELSE base \o <<"-">> \o NatStr(-val)

LevelString(l) ==
    IF l < LevelInfo THEN LevelStr(<<"D", "E", "B", "U", "G">>, l - LevelDebug)
    ELSE IF l < LevelWarn THEN LevelStr(<<"I", "N", "F", "O">>, l - LevelInfo)
    ELSE IF l < LevelError THEN LevelStr(<<"W", "A", "R", "N">>, l - LevelWarn)
    ELSE LevelStr(<<"E", "R", "R", "O", "R">>, l - LevelError)

(***************************************************************************)
(* Durations are in nanoseconds.                                           *)
(***************************************************************************)
Second == 1000000000

\* n in decimal, padded with zeros to width digits
RECURSIVE PadN(_, _)
PadN(n, width) == IF width <= 0 THEN <<>> ELSE PadN(n \div 10, width - 1) \o <<Digits[(n % 10) + 1]>>

(***************************************************************************)
(* Duration.Seconds() is float64(sec) + float64(nsec)/1e9 in IEEE double   *)
(* arithmetic.  The binary digits of nsec/1e9 are those of nsec/5^9 moved  *)
(* nine places to the right; they are produced ten at a time, r being the  *)
(* remainder out of 5^9 still to be expanded.                              *)
(***************************************************************************)
MantissaBits == 53

Pow5 == 1953125

ShiftBits == 9

ChunkBits == 10

NumChunks == 8

\* the binary digits of n < 2^width, most significant first
BinDigits(n, width) == [j \in 1..width |-> (n \div (2 ^ (width - j))) % 2]

\* what is left of r / Pow5 after n chunks of binary digits
RECURSIVE ChunkRem(_, _)
ChunkRem(r, n) == IF n = 0 THEN r ELSE (ChunkRem(r, n - 1) * (2 ^ ChunkBits)) % Pow5

\* the first ShiftBits + NumChunks * ChunkBits binary digits after the point
\* of nsec / Second
FracBits(nsec) ==
    BinDigits(nsec \div Pow5, ShiftBits)
      \o Flatten([n \in 1..NumChunks |->
             BinDigits((ChunkRem(nsec % Pow5, n - 1) * (2 ^ ChunkBits)) \div Pow5, ChunkBits)])

\* the number of binary digits of n >= 1
RECURSIVE BitLen(_)
BitLen(n) == IF n <= 1 THEN 1 ELSE 1 + BitLen(n \div 2)

\* bits plus one unit in the last place (a carry out of the first is dropped)
IncBits(bits) ==
    LET zeros == {j \in 1..Len(bits) : bits[j] = 0}
        z == IF zeros = {} THEN 0 ELSE CHOOSE j \in zeros : \A k \in zeros : k <= j
    IN  [j \in 1..Len(bits) |-> IF j < z THEN bits[j] ELSE IF j = z THEN 1 ELSE 0]

\* the place of the first 1 among bits
LeadBit(bits) == CHOOSE i \in 1..Len(bits) : bits[i] = 1 /\ \A j \in 1..(i - 1) : bits[j] = 0

\* bits rounded to its first p digits, to nearest, ties to even; more tells
\* that nonzero digits follow those of bits.  sign is that of the rounded
\* value minus the exact one
RoundTo(bits, p, more) ==
    LET kept == SubSeq(bits, 1, p)
        tail == SubSeq(bits, p + 1, Len(bits))
        rest == more \/ \E j \in 2..Len(tail) : tail[j] = 1
        up == tail[1] = 1 /\ (rest \/ kept[p] = 1)
    IN  [bits |-> IF up THEN IncBits(kept) ELSE kept,
         sign |-> IF tail[1] = 0 /\ ~rest THEN 0 ELSE IF up THEN 1 ELSE -1]

\* float64(nsec) / 1e9: the quotient rounded to 53 significant bits
QuotRound(bits, more) == RoundTo(bits, LeadBit(bits) + MantissaBits - 1, more)

\* float64(sec) + q: the sum rounded to 53 significant bits, of which the
\* whole part takes BitLen(sec)
SumError(sec, q) ==
    IF sec = 0 THEN q.sign
    ELSE LET sign2 == RoundTo(q.bits, MantissaBits - BitLen(sec), FALSE).sign
         IN  IF sign2 # 0 THEN sign2 ELSE q.sign

\* the sign of Duration(ns).Seconds() - ns/1e9 for ns >= 0
SecondsError(ns) ==
    IF ns % Second = 0 THEN 0
    ELSE SumError(ns \div Second,
                  QuotRound(FracBits(ns % Second),
                            ChunkRem((ns % Second) % Pow5, NumChunks) # 0))

\* strconv.FormatFloat(d.Seconds(), 'f', 4, 64) for d >= 0: the float rounded
\* to four decimals.  The float is within 2^-52 of ns/1e9, so it rounds as
\* ns/1e9 does except when ns/1e9 lies halfway between two results: then the
\* side the float fell on decides, and an exact float rounds to even
FormatSecondsAbs(ns) ==
    LET low == ns \div 100000
        rest == ns % 100000
        up == \/ rest > 50000
              \/ rest = 50000 /\ (SecondsError(ns) > 0 \/ (SecondsError(ns) = 0 /\ low % 2 = 1))
        units == IF up THEN low + 1 ELSE low
    IN  NatStr(units \div 10000) \o <<".">> \o PadN(units % 10000, 4)

\* strconv.FormatFloat(d.Seconds(), 'f', 4, 64)
FormatSeconds(ns) ==
    IF ns < 0 THEN <<"-">> \o FormatSecondsAbs(-ns) ELSE FormatSecondsAbs(ns)

\* time.Time.AppendFormat(buf, time.TimeOnly): t counts seconds from the zero time
FormatTimeOnly(t) ==
    Pad2((t \div 3600) % 24) \o <<":">> \o Pad2((t \div 60) % 60) \o <<":">> \o Pad2(t % 60)

\* days before each month of a common year
DaysBefore == <<0, 31, 59, 90, 120, 151, 181, 212, 243, 273, 304, 334, 365>>

IsLeap(year) == year % 4 = 0 /\ (year % 100 # 0 \/ year % 400 = 0)

DaysBeforeMonth(m, year) == DaysBefore[m] + (IF IsLeap(year) /\ m > 2 THEN 1 ELSE 0)

\* year and day of the year, from 0, of the day days after 0001-01-01
YearDay(days) ==
    LET n1 == days % 146097
        c == Min(n1 \div 36524, 3)
        n2 == n1 - c * 36524
        n3 == n2 % 1461
        y == Min(n3 \div 365, 3)
    IN  [year |-> 400 * (days \div 146097) + 100 * c + 4 * (n2 \div 1461) + y + 1,
         yday |-> n3 - y * 365]

\* time.Time.String() of a UTC time without monotonic reading and whole seconds
TimeString(t) ==
    LET yd == YearDay(t \div 86400)
        m == CHOOSE k \in 1..12 : /\ DaysBeforeMonth(k, yd.year) <= yd.yday
                                  /\ yd.yday < DaysBeforeMonth(k + 1, yd.year)
    IN  PadN(yd.year, 4) \o <<"-">> \o Pad2(m) \o <<"-">>
          \o Pad2(yd.yday - DaysBeforeMonth(m, yd.year) + 1) \o <<" ">>
          \o FormatTimeOnly(t) \o <<" ", "+", "0", "0", "0", "0", " ", "U", "T", "C">>

RECURSIVE TrimZeros(_)
TrimZeros(s) == IF s # <<>> /\ Last(s) = "0" THEN TrimZeros(Front(s)) ELSE s

\* fmtFrac of time.Duration.String: the fraction v mod unit of prec digits,
\* without trailing zeros, and without the point when it is zero
FmtFrac(v, unit, prec) ==
    IF v % unit = 0 THEN <<>> ELSE <<".">> \o TrimZeros(PadN(v % unit, prec))

\* time.Duration.String
DurationString(d) ==
    LET u == IF d < 0 THEN -d ELSE d
        neg == IF d < 0 THEN <<"-">> ELSE <<>>
        secs == u \div Second
        mins == secs \div 60
        hours == mins \div 60
    IN  IF u = 0 THEN <<"0", "s">>
        ELSE IF u < 1000 THEN neg \o NatStr(u) \o <<"n", "s">>
        ELSE IF u < 1000000
             THEN neg \o NatStr(u \div 1000) \o FmtFrac(u, 1000, 3) \o <<"U+00B5", "s">>
        ELSE IF u < Second
             THEN neg \o NatStr(u \div 1000000) \o FmtFrac(u, 1000000, 6) \o <<"m", "s">>
        ELSE neg
             \o (IF hours > 0 THEN NatStr(hours) \o <<"h">> ELSE <<>>)
             \o (IF mins > 0 THEN NatStr(mins % 60) \o <<"m">> ELSE <<>>)
             \o NatStr(secs % 60) \o FmtFrac(u, Second, 9) \o <<"s">>

\* strconv.FormatFloat(v, 'e', nd - 1, 64) of digits d with exponent exp
FmtE(d, exp) ==
    (IF d = <<>> THEN <<"0">> ELSE <<Head(d)>>)
      \o (IF Len(d) > 1 THEN <<".">> \o Tail(d) ELSE <<>>)
      \o <<"e", IF exp < 0 THEN "-" ELSE "+">>
      \o (LET e == IF d = <<>> THEN 0 ELSE IF exp < 0 THEN -exp ELSE exp
          IN  IF e < 10 THEN <<"0">> \o NatStr(e) ELSE NatStr(e))

\* strconv.FormatFloat(v, 'f', max(nd - dp, 0), 64)
FmtF(d, dp) ==
    (IF dp > 0 THEN [i \in 1..dp |-> IF i <= Len(d) THEN d[i] ELSE "0"] ELSE <<"0">>)
      \o (IF Len(d) > dp
          THEN <<".">> \o [i \in 1..(Len(d) - dp) |-> IF dp + i >= 1 THEN d[dp + i] ELSE "0"]
          ELSE <<>>)

\* strconv.AppendFloat(buf, v, 'g', -1, 64): the exponent form when the decimal
\* exponent is below -4 or at least 6
FormatFloatG(v) ==
    IF v.f = <<"N", "a", "N">> THEN v.f
    ELSE IF v.f # <<>> THEN <<IF v.neg THEN "-" ELSE "+">> \o v.f
    ELSE (IF v.neg THEN <<"-">> ELSE <<>>)
           \o (IF v.n - 1 < -4 \/ v.n - 1 >= 6 THEN FmtE(v.s, v.n - 1) ELSE FmtF(v.s, v.n))

\* the fields of a slog.Source between braces, named under the plus flag
SourceFields(c, plus) ==
    (IF plus THEN <<"F", "u", "n", "c", "t", "i", "o", "n", ":">> ELSE <<>>) \o c.f \o <<" ">>
      \o (IF plus THEN <<"F", "i", "l", "e", ":">> ELSE <<>>) \o c.s \o <<" ">>
      \o (IF plus THEN <<"L", "i", "n", "e", ":">> ELSE <<>>) \o LineStr(c)

\* fmt's printValue under the verb v, with the plus flag or without, of an
\* operand (depth 0) or of an element inside one: a pointer to a struct is
\* followed only at depth 0 and printed as its address below
RECURSIVE Sprint(_, _, _)
Sprint(c, plus, depth) ==
    CASE c.t = "nil" -> <<"<", "n", "i", "l", ">">>
      [] c.t = "string" -> c.s
      [] c.t = "int64" -> Itoa(c.n)
      [] c.t = "uint64" -> NatStr(c.n)
      [] c.t = "bool" -> IF c.n # 0 THEN <<"t", "r", "u", "e">> ELSE <<"f", "a", "l", "s", "e">>
      [] c.t = "float64" -> FormatFloatG(c)
      [] c.t = "Duration" -> DurationString(c.n)
      [] c.t = "Time" -> TimeString(c.n)
      [] c.t = "Level" -> LevelString(c.n)
      [] c.t = "Source" -> <<"{">> \o SourceFields(c, plus) \o <<"}">>
      [] c.t = "*Source" ->
             IF c.addr = <<>> THEN <<"<", "n", "i", "l", ">">>
             ELSE IF depth = 0 THEN <<"&", "{">> \o SourceFields(c, plus) \o <<"}">>
             ELSE <<"0", "x">> \o c.addr
      [] c.t = "slice" ->
             <<"[">> \o Flatten([i \in 1..Len(c.elems) |->
                                   (IF i > 1 THEN <<" ">> ELSE <<>>)
                                     \o Sprint(c.elems[i], plus, depth + 1)])
                    \o <<"]">>

\* fmt.Sprintf("%v", c)
Sprintv(c) == Sprint(c, FALSE, 0)

(***************************************************************************)
(* The renderer's append functions: each gives the bytes it appends.       *)
(***************************************************************************)
\* fmt.Sprintf("%+v", c)
Sprintpv(c) == Sprint(c, TRUE, 0)

\* only the layout NewDevHandler sets is modelled; an empty layout formats to nothing
appendTime(timeFormat, t) ==
    Faint \o (IF timeFormat = <<>> THEN <<>> ELSE FormatTimeOnly(t)) \o Reset

appendLevel(level) ==
    LET colorLevel == IF level = LevelInfo THEN BrightGreen
                      ELSE IF level = LevelWarn THEN BrightYellow
                      ELSE Red
    IN  colorLevel \o LevelString(level) \o Reset

\* src is a Source value
appendSource(src) ==
    Faint \o ReducePath(src.s)
      \o (IF LineNonZero(src) THEN <<":">> \o LineStr(src) \o Reset ELSE <<>>)
      \o <<" ">> \o Blue \o getFuncNameSlog(src.f) \o Reset \o <<" ">>

appendMessage(level, msg) ==
    IF msg = <<>> THEN <<>>
    ELSE (IF level = LevelError THEN Red ELSE Cyan) \o msg \o Reset \o <<" ">>

\* colorDuration with the comparison made inclusive
colorDurationInclusive(c, slowThreshold) == IF c >= slowThreshold THEN Red ELSE Green

colorDuration(c, slowThreshold) == IF c > slowThreshold THEN Red ELSE Green

appendSql(ctx, level, slowThreshold) ==
    LET sql == CtxValue(ctx, Sql)
        d == CtxValue(ctx, Duration)
        rows == CtxValue(ctx, Rows)
    IN  IF sql = Nil THEN <<>>
        ELSE <<"\n">>
             \o (IF d.t = "Duration"
                 THEN colorDuration(d.n, slowThreshold)
                      \o <<"[">> \o FormatSeconds(d.n) \o <<"]", " ">> \o Reset
                 ELSE <<>>)
             \o (IF rows # Nil
                 THEN Yellow \o <<"r", "o", "w", "s", ":">> \o Sprintv(rows) \o <<" ">> \o Reset
                 ELSE <<>>)
             \o (IF level = LevelError THEN Red ELSE Magenta)
             \o Sprintv(sql) \o <<" ">> \o Reset
             \o <<"\n">>

appendCtxValue(key, value) == Faint \o key \o <<"=">> \o Reset \o value

RECURSIVE AddValueCtx(_, _)
AddValueCtx(addCxtAttr, ctx) ==
    IF addCxtAttr = <<>> THEN <<>>
    ELSE LET v == Head(addCxtAttr)
             c == CtxValue(ctx, v)
         IN  (IF c # Nil THEN appendCtxValue(v, Sprintv(c) \o <<" ">>) ELSE <<>>)
             \o AddValueCtx(Tail(addCxtAttr), ctx)

(***************************************************************************)
(* Attributes: [key, kind, val, group].                                    *)
(*   kind = "String" | "Int64" | "Uint64" | "Float64" | "Bool" | "Duration"*)
(*          | "Time" | "Any" | "Error" | "Group"                           *)
(*   "Error" is an Any holding the logError wrapper (val.s its message);   *)
(*   group is the member list of a Group.                                  *)
(***************************************************************************)
Attr(key, kind, val) == [key |-> key, kind |-> kind, val |-> val, group |-> <<>>]

GroupAttr(key, members) == [key |-> key, kind |-> "Group", val |-> Nil, group |-> members]

\* slog.Attr{}: empty key, zero Value, which is an Any holding nil
EmptyAttr == Attr(<<>>, "Any", Nil)

appendKey(key, groups) == Faint \o appendString(groups \o key, FALSE, TRUE) \o <<"=">> \o Reset

\* what the deferred recover of appendValue appends after a panic with msg
appendRecovered(isNil, msg) ==
    IF isNil THEN appendString(<<"<", "n", "i", "l", ">">>, FALSE, FALSE)
    ELSE appendString(<<"!", "P", "A", "N", "I", "C", ":", " ">> \o msg, TRUE, TRUE)

\* the type switch of appendValue on v.Any(); appendSource reads src.File
\* first, so that a nil pointer panics before any write
appendAny(v, quote) ==
    CASE v.t = "Level" -> appendLevel(v.n)
      [] v.t = "Marshaler" ->
             CASE v.out = "ok" -> appendString(v.s, quote, TRUE)
               [] v.out = "err" -> <<>>
               [] OTHER -> appendRecovered(v.isNil, v.f)
      [] v.t = "*Source" -> IF v.addr = <<>> THEN appendRecovered(TRUE, <<>>)
                            ELSE appendSource(v)
      [] OTHER -> appendString(Sprintpv(v), quote, TRUE)

\* the kinds without a case, KindGroup and KindLogValuer, append nothing
appendValue(kind, v, quote) ==
    CASE kind = "String" -> appendString(v.s, quote, TRUE)
      [] kind = "Int64" -> Itoa(v.n)
      [] kind = "Uint64" -> NatStr(v.n)
      [] kind = "Float64" -> FormatFloatG(v)
      [] kind = "Bool" -> IF v.n # 0 THEN <<"t", "r", "u", "e">> ELSE <<"f", "a", "l", "s", "e">>
      [] kind = "Duration" -> appendString(DurationString(v.n), quote, TRUE)
      [] kind = "Time" -> appendString(TimeString(v.n), quote, TRUE)
      [] kind = "Any" -> appendAny(v, quote)
      [] OTHER -> <<>>

appendTintError(err, attrKey, groupsPrefix) ==
    Blue \o appendString(groupsPrefix \o attrKey, TRUE, TRUE) \o <<"=">>
         \o Faint \o appendString(err.s, TRUE, TRUE) \o Reset

\* the bytes appendAttr appends for one attribute under a dotted prefix
RECURSIVE appendAttr(_, _)
appendAttr(attr, groupsPrefix) ==
    IF attr = EmptyAttr THEN <<>>
    ELSE IF attr.kind = "Error"
         THEN appendTintError(attr.val, attr.key, groupsPrefix) \o <<" ">>
    ELSE IF attr.kind = "Group"
         THEN LET prefix == IF attr.key # <<>> THEN groupsPrefix \o attr.key \o <<".">>
                            ELSE groupsPrefix
              IN  Flatten([i \in 1..Len(attr.group) |-> appendAttr(attr.group[i], prefix)])
    ELSE appendKey(attr.key, groupsPrefix) \o appendValue(attr.kind, attr.val, TRUE) \o <<" ">>

appendAttrs(attrs, groupsPrefix) ==
    Flatten([i \in 1..Len(attrs) |-> appendAttr(attrs[i], groupsPrefix)])


(***************************************************************************)
(* Go slices of strings: a header [arr, len, cap] over a backing array of  *)
(* the heap; arr = 0 is the nil slice.                                     *)
(***************************************************************************)
NilSlice == [arr |-> 0, len |-> 0, cap |-> 0]

\* runtime.growslice for small slices: the needed length when it exceeds twice
\* the old capacity, else twice the old capacity
GrowCap(cap, needed) == IF needed > 2 * cap THEN needed ELSE 2 * cap

\* the slice header append(sl, x) returns
AppendSlice(hp, sl, x) ==
    IF sl.len < sl.cap THEN [sl EXCEPT !.len = sl.len + 1]
    ELSE [arr |-> Len(hp) + 1, len |-> sl.len + 1, cap |-> GrowCap(sl.cap, sl.len + 1)]

\* the heap after append(sl, x): a write into the spare capacity of the backing
\* array, or a fresh array holding a copy
AppendHeap(hp, sl, x) ==
    IF sl.len < sl.cap THEN [hp EXCEPT ![sl.arr][sl.len + 1] = x]
    ELSE Append(hp, [j \in 1..GrowCap(sl.cap, sl.len + 1) |->
                        IF j <= sl.len THEN hp[sl.arr][j]
                        ELSE IF j = sl.len + 1 THEN x ELSE <<>>])

\* the elements a slice header denotes
SliceElems(hp, sl) == [j \in 1..sl.len |-> hp[sl.arr][j]]

\* the heap after appendAttr(buf, attr, groupsPrefix, groups): a group attribute
\* appends its key to the groups slice it was handed
RECURSIVE appendAttrGroups(_, _, _)
RECURSIVE appendAttrsGroups(_, _, _)
appendAttrGroups(hp, attr, groups) ==
    IF attr = EmptyAttr \/ attr.kind # "Group" THEN hp
    ELSE IF attr.key # <<>>
         THEN appendAttrsGroups(AppendHeap(hp, groups, attr.key), attr.group,
                                AppendSlice(hp, groups, attr.key))
         ELSE appendAttrsGroups(hp, attr.group, groups)

appendAttrsGroups(hp, attrs, groups) ==
    IF attrs = <<>> THEN hp
    ELSE appendAttrsGroups(appendAttrGroups(hp, Head(attrs), groups), Tail(attrs), groups)

\* arrays allocated during a call and referenced by no renderer are garbage
Collect(hpAfter, hpBefore) == Take(hpAfter, Len(hpBefore))

(***************************************************************************)
(* handlerTextColor.                                                       *)
(***************************************************************************)
TimeOnly == <<"1", "5", ":", "0", "4", ":", "0", "5">>

\* the single writer handed to NewDevHandler
W == "w"

\* NewDevHandler; id names the sync.Mutex embedded in the new struct
NewDevHandler(opt, id) ==
    [source |-> opt.Source,
     timeFormat |-> TimeOnly,
     level |-> LevelDebug,
     attrsPrefix |-> <<>>,
     groupPrefix |-> <<>>,
     addCxtAttr |-> opt.AddCxtAttr,
     groups |-> NilSlice,
     slowThreshold |-> IF opt.SlowThreshold = 0 THEN Second ELSE opt.SlowThreshold,
     mu |-> id,
     w |-> opt.W]

\* clone: the fields it does not copy take their zero values, and the new
\* struct embeds a new mutex
clone(h, id) ==
    [source |-> FALSE,
     timeFormat |-> h.timeFormat,
     level |-> h.level,
     attrsPrefix |-> h.attrsPrefix,
     groupPrefix |-> h.groupPrefix,
     addCxtAttr |-> <<>>,
     groups |-> h.groups,
     slowThreshold |-> 0,
     mu |-> id,
     w |-> h.w]

\* the renderer WithAttrs returns for a non-empty list
WithAttrsNew(h, attrs, id) ==
    [clone(h, id) EXCEPT !.attrsPrefix = h.attrsPrefix \o appendAttrs(attrs, h.groupPrefix)]

\* WithGroupNew with the new name put in front of the inherited prefix
WithGroupNewPrepend(hp, h, name, id) ==
    LET h2 == clone(h, id)
    IN  [h2 EXCEPT !.groupPrefix = name \o <<".">> \o h2.groupPrefix,
                   !.groups = AppendSlice(hp, h2.groups, name)]

\* the renderer WithGroup returns for a non-empty name
WithGroupNew(hp, h, name, id) ==
    LET h2 == clone(h, id)
    IN  [h2 EXCEPT !.groupPrefix = h2.groupPrefix \o name \o <<".">>,
                   !.groups = AppendSlice(hp, h2.groups, name)]

(***************************************************************************)
(* Records and stack frames.  A record is [Time, Level, Message, PC,       *)
(* Attrs]; Time counts seconds from the zero time.  A program counter      *)
(* indexes the frame table, 0 being no program counter.                    *)
(***************************************************************************)
ZeroFrame == [Function |-> <<>>, File |-> <<>>, Line |-> 0]

AppFrame == [Function |-> <<"a", "p", "p", "/", "s", "v", "c", ".", "(", "*", "T", ")", ".", "R", "u", "n", ".", "f", "u", "n", "c", "1">>, File |-> <<"/", "s", "r", "c", "/", "s", "v", "c", "/", "r", "u", "n", ".", "g", "o">>, Line |-> 42]

\* a frame whose file is unknown
BareFrame == [Function |-> <<"m", "a", "i", "n", ".", "i", "n", "i", "t">>, File |-> <<>>, Line |-> 0]

\* the callers slog.Logger records for the gorm logger: gormLogger.Info,
\* gormLogger.Error, gormLogger.Warn and getFileLine
LoggerFile == <<"/", "s", "r", "c", "/", "l", "o", "g", "g", "e", "r", "/", "l", "o", "g", "g", "e", "r", ".", "g", "o">>

InfoFrame == [Function |-> <<"a", "p", "p", "/", "l", "o", "g", "g", "e", "r", ".", "(", "*", "g", "o", "r", "m", "L", "o", "g", "g", "e", "r", ")", ".", "I", "n", "f", "o">>, File |-> LoggerFile, Line |-> 173]

ErrorFrame == [Function |-> <<"a", "p", "p", "/", "l", "o", "g", "g", "e", "r", ".", "(", "*", "g", "o", "r", "m", "L", "o", "g", "g", "e", "r", ")", ".", "E", "r", "r", "o", "r">>, File |-> LoggerFile, Line |-> 181]

WarnFrame == [Function |-> <<"a", "p", "p", "/", "l", "o", "g", "g", "e", "r", ".", "(", "*", "g", "o", "r", "m", "L", "o", "g", "g", "e", "r", ")", ".", "W", "a", "r", "n">>, File |-> LoggerFile, Line |-> 177]

GetFileLineFrame == [Function |-> <<"a", "p", "p", "/", "l", "o", "g", "g", "e", "r", ".", "g", "e", "t", "F", "i", "l", "e", "L", "i", "n", "e">>, File |-> LoggerFile, Line |-> 252]

\* runtime.CallersFrames([]uintptr{pc}).Next()
FrameOf(pc) ==
    CASE pc = 1 -> AppFrame
      [] pc = 2 -> BareFrame
      [] pc = 3 -> InfoFrame
      [] pc = 4 -> ErrorFrame
      [] pc = 5 -> GetFileLineFrame
      [] pc = 6 -> WarnFrame
      [] OTHER -> ZeroFrame

\* HandleSegs with the SQL trace block appended before the bound attributes
HandleSegsSqlEarly(h, ctx, r) ==
    LET f == FrameOf(r.PC)
        c == CtxValue(ctx, Source)
    IN  << [sec |-> "time",
            bytes |-> IF r.Time # 0 THEN appendTime(h.timeFormat, r.Time) \o <<" ">> ELSE <<>>],
           [sec |-> "level", bytes |-> appendLevel(r.Level) \o <<" ">>],
           [sec |-> "source",
            bytes |-> IF h.source /\ f.File # <<>>
                      THEN IF c.t = "Source" THEN appendSource(c)
                           ELSE appendSource(SourceV(f.Function, f.File, f.Line))
                      ELSE <<>>],
           [sec |-> "message", bytes |-> appendMessage(r.Level, r.Message)],
           [sec |-> "attrs", bytes |-> appendAttrs(r.Attrs, h.groupPrefix)],
           [sec |-> "ctx", bytes |-> AddValueCtx(h.addCxtAttr, ctx)],
           [sec |-> "sql", bytes |-> appendSql(ctx, r.Level, h.slowThreshold)],
           [sec |-> "bound", bytes |-> h.attrsPrefix] >>

\* the sections of one rendered line, in the order Handle appends them
HandleSegs(h, ctx, r) ==
    LET f == FrameOf(r.PC)
        c == CtxValue(ctx, Source)
    IN  << [sec |-> "time",
            bytes |-> IF r.Time # 0 THEN appendTime(h.timeFormat, r.Time) \o <<" ">> ELSE <<>>],
           [sec |-> "level", bytes |-> appendLevel(r.Level) \o <<" ">>],
           [sec |-> "source",
            bytes |-> IF h.source /\ f.File # <<>>
                      THEN IF c.t = "Source" THEN appendSource(c)
                           ELSE appendSource(SourceV(f.Function, f.File, f.Line))
                      ELSE <<>>],
           [sec |-> "message", bytes |-> appendMessage(r.Level, r.Message)],
           [sec |-> "attrs", bytes |-> appendAttrs(r.Attrs, h.groupPrefix)],
           [sec |-> "ctx", bytes |-> AddValueCtx(h.addCxtAttr, ctx)],
           [sec |-> "bound", bytes |-> h.attrsPrefix],
           [sec |-> "sql", bytes |-> appendSql(ctx, r.Level, h.slowThreshold)] >>

\* the buffer Handle has assembled before it replaces the last byte
HandleBuf(h, ctx, r) ==
    LET segs == HandleSegs(h, ctx, r)
    IN  Flatten([i \in 1..Len(segs) |-> segs[i].bytes])

\* (*buf)[len(*buf)-1] = '\n'
HandleLine(h, ctx, r) ==
    LET buf == HandleBuf(h, ctx, r)
    IN  [buf EXCEPT ![Len(buf)] = "\n"]

\* the heap after Handle: the record's group attributes append to h.groups
HandleHeap(hp, h, r) == Collect(appendAttrsGroups(hp, r.Attrs, h.groups), hp)


(***************************************************************************)
(* Inputs of the dev renderer.                                             *)
(***************************************************************************)
Rid == <<"r", "i", "d">>

Uid == <<"u", "i", "d">>

DevOptions ==
    { [AddCxtAttr |-> <<Rid, Uid>>, W |-> W, Source |-> TRUE, SlowThreshold |-> 0],
      [AddCxtAttr |-> <<>>, W |-> W, Source |-> FALSE, SlowThreshold |-> 2 * Second] }

AttrK == Attr(<<"k">>, "String", StrV(<<"v">>))

AttrQ == Attr(<<"q">>, "String", StrV(<<"t", "w", "o", " ", "w", "o", "r", "d", "s">>))

AttrN == Attr(<<"n">>, "Int64", Int64V(7))

\* a value with a form feed and a letter outside ASCII
AttrCtl == Attr(<<"c">>, "String", StrV(<<"a", "FF", "U+00E9">>))

AttrErr == Attr(<<"e", "r", "r">>, "Error", StrV(<<"n", "o", " ", "r", "o", "w", "s">>))

AttrGroup == GroupAttr(<<"g">>, <<AttrN, EmptyAttr, GroupAttr(<<"h">>, <<AttrK>>)>>)

CtxSource0 == SourceV(<<"a", "p", "p", "/", "d", "b", ".", "F", "i", "n", "d">>, <<"/", "s", "r", "c", "/", "d", "b", "/", "f", "i", "n", "d", ".", "g", "o">>, 0)

CtxSource == SourceV(<<"a", "p", "p", "/", "d", "b", ".", "F", "i", "n", "d">>, <<"/", "s", "r", "c", "/", "d", "b", "/", "f", "i", "n", "d", ".", "g", "o">>, 12)

\* slog.Any of a slog.Source and of a pointer to one
AttrSrc == Attr(<<"s", "r", "c">>, "Any", CtxSource)

\* slog.Uint64, slog.Float64 of 1.5 and of 0.00001, slog.Bool, slog.Time
AttrU == Attr(<<"u">>, "Uint64", Uint64V(7))

AttrF == Attr(<<"f">>, "Float64", Float64V(FALSE, <<"1", "5">>, 1, <<>>))

AttrFe == Attr(<<"f", "e">>, "Float64", Float64V(TRUE, <<"1">>, -4, <<>>))

AttrB == Attr(<<"b">>, "Bool", BoolV(TRUE))

AttrT == Attr(<<"t">>, "Time", TimeV(5270400 + 3723))

\* slog.Any of a slog.Level, of values with a MarshalText method that returns a
\* text, returns an error, panics, and panics on a nil pointer
AttrLvl == Attr(<<"l", "v">>, "Any", LevelV(LevelWarn + 2))

AttrM == Attr(<<"m">>, "Any", MarshalerV(<<"1", "0", ".", "0", ".", "0", ".", "1">>, "ok", <<>>, FALSE))

AttrMErr == Attr(<<"m", "e">>, "Any", MarshalerV(<<>>, "err", <<>>, FALSE))

AttrMPanic == Attr(<<"m", "p">>, "Any", MarshalerV(<<>>, "panic", <<"b", "a", "d">>, FALSE))

AttrMNil == Attr(<<"m", "n">>, "Any", MarshalerV(<<>>, "panic", <<>>, TRUE))

AttrNilPtr == Attr(<<"n", "p">>, "Any", NilSourcePtr)

\* slog.Any of a []any holding a struct, a pointer, nil and a string
AttrSlice == Attr(<<"l">>, "Any",
                  SliceV(<<CtxSource, SourcePtr(CtxSource, <<"c", "0", "0", "0", "0", "1", "2", "1", "2", "0">>), Nil, StrV(<<"x">>)>>))

AttrSrcPtr == Attr(<<"p">>, "Any", SourcePtr(CtxSource, <<"c", "0", "0", "0", "0", "1", "2", "1", "2", "0">>))

Records ==
    { [Time |-> 0, Level |-> LevelInfo, Message |-> <<>>, PC |-> 0, Attrs |-> <<>>],
      [Time |-> 3723, Level |-> LevelError, Message |-> <<"b", "o", "o", "m">>, PC |-> 1,
       Attrs |-> <<AttrQ, AttrErr, AttrSrc, AttrU, AttrF, AttrFe, AttrB, AttrT>>],
      [Time |-> 86399, Level |-> LevelWarn, Message |-> <<"m">>, PC |-> 1,
       Attrs |-> <<AttrGroup, AttrK, AttrSrcPtr>>],
      [Time |-> 60, Level |-> LevelDebug, Message |-> <<"h", "i">>, PC |-> 2,
       Attrs |-> <<EmptyAttr, AttrCtl, AttrMErr, AttrMPanic, AttrMNil, AttrNilPtr, AttrLvl,
                   AttrM, AttrSlice>>] }

EmptyCtx == [k \in {} |-> Nil]

SqlText == <<"S", "E", "L", "E", "C", "T", " ", "1">>

BaseCtx == WithValue(EmptyCtx, Rid, StrV(<<"r", "1">>))

\* a context as gormLogger.Trace leaves it, with duration d: the source holds
\* the reduced function name and path
TraceCtx(d) ==
    WithValue(WithValue(WithValue(WithValue(BaseCtx, Sql, StrV(SqlText)),
        Rows, Int64V(3)), Duration, DurationV(d)), Source,
        SourceV(RemoveFirstDot(Ext(CtxSource.f)), ReducePath(CtxSource.s), CtxSource.n))

SlowDurations == {150000, 250000000, Second, Second + 1, 2 * Second, 2 * Second + 1}

Ctxs ==
    {EmptyCtx}
      \cup {TraceCtx(d) : d \in SlowDurations}
      \cup { WithValue(WithValue(WithValue(WithValue(EmptyCtx, Sql, StrV(SqlText)),
                 Duration, StrV(<<"1", "s">>)), Uid, Int64V(5)), Source, CtxSource0) }

AttrLists == {<<>>, <<AttrGroup, AttrErr>>}

GroupNames == {<<>>, <<"a">>}

(***************************************************************************)
(* State.                                                                  *)
(***************************************************************************)
VARIABLES
    options,    \* the Options NewDevHandler was given
    handlers,   \* the renderers built so far, NewDevHandler's first
    lineage,    \* how each renderer was derived: [parent, names, bound]
    heap,       \* backing arrays of the renderers' groups slices
    locks,      \* locks[m]: the goroutine holding mutex m, 0 when free
    sink,       \* what the writer has received: chunks [call, bytes]
    calls,      \* the Handle calls begun: [h, ctx, rec, segs, done]
    gor,        \* gor[g]: goroutine g inside Handle: [pc, call, pos, todo]
    mws,        \* the HandlerMiddleware values built so far
    downs,      \* the downstream handlers: the derivations each went through
    fwd,        \* the records the downstream handlers were handed
    mwCalls,    \* the HandlerMiddleware.Handle calls made
    now,        \* the clock
    traces,     \* the gormLogger.Trace calls made
    loggers,    \* the gorm loggers built so far: NewGormLogger's and LogMode's results
    defaultLogger, \* the handler of slog.Default(): [kind, ref, sets]
    filtered    \* the ParamsFilter calls made: [logger, sql, params, out]

devVars == <<options, handlers, lineage, heap, locks, sink, calls, gor>>

mwVars == <<mws, downs, fwd, mwCalls>>

gormVars == <<now, traces, loggers, defaultLogger, filtered>>

vars == <<options, handlers, lineage, heap, locks, sink, calls, gor,
          mws, downs, fwd, mwCalls, now, traces, loggers, defaultLogger, filtered>>

Goroutines == 1..NumGoroutines

\* todo holds the records the goroutine has still to hand to their loggers
Idle == [pc |-> "idle", call |-> 0, pos |-> 0, todo |-> <<>>]

InitDevWith(opts) ==
    /\ options \in opts
    /\ handlers = <<NewDevHandler(options, 1)>>
    /\ lineage = <<[parent |-> 0, names |-> <<>>, bound |-> <<>>]>>
    /\ heap = <<>>
    /\ locks = <<0>>
    /\ sink = <<>>
    /\ calls = <<>>
    /\ gor = [g \in Goroutines |-> Idle]

(***************************************************************************)
(* Derivation.  limit bounds the number of renderers.                      *)
(***************************************************************************)
WithAttrs(i, attrs, limit) ==
    /\ i \in 1..Len(handlers)
    /\ IF Len(attrs) = 0
       THEN UNCHANGED <<handlers, lineage, heap, locks>>
       ELSE /\ Len(handlers) < limit
            /\ handlers' = Append(handlers, WithAttrsNew(handlers[i], attrs, Len(handlers) + 1))
            /\ lineage' = Append(lineage,
                   [parent |-> i, names |-> lineage[i].names,
                    bound |-> Append(lineage[i].bound,
                                     [attrs |-> attrs, names |-> lineage[i].names])])
            /\ heap' = Collect(appendAttrsGroups(heap, attrs, handlers[i].groups), heap)
            /\ locks' = Append(locks, 0)
    /\ UNCHANGED <<options, sink, calls, gor, mwVars, gormVars>>

WithGroup(i, name, limit) ==
    /\ i \in 1..Len(handlers)
    /\ IF name = <<>>
       THEN UNCHANGED <<handlers, lineage, heap, locks>>
       ELSE /\ Len(handlers) < limit
            /\ handlers' = Append(handlers,
                                  WithGroupNew(heap, handlers[i], name, Len(handlers) + 1))
            /\ lineage' = Append(lineage,
                   [parent |-> i, names |-> Append(lineage[i].names, name),
                    bound |-> lineage[i].bound])
            /\ heap' = AppendHeap(heap, handlers[i].groups, name)
            /\ locks' = Append(locks, 0)
    /\ UNCHANGED <<options, sink, calls, gor, mwVars, gormVars>>

(***************************************************************************)
(* Handle, as the goroutines run it: the buffer is assembled, the mutex    *)
(* taken, the buffer written, the mutex released.  The writer takes the    *)
(* bytes of one Write whole or in pieces and returns nil, or takes none    *)
(* and returns an error.                                                   *)
(***************************************************************************)
\* err is the error Handle returned, "" while the call is running
NewCall(i, ctx, r, done, err) ==
    [h |-> i, ctx |-> ctx, rec |-> r, segs |-> HandleSegs(handlers[i], ctx, r),
     done |-> done, err |-> err]

\* what h.w.Write returns: nil with every byte accepted, or an error with none
WriteResults == {"nil", "write failed"}

\* CanLock of a Handle that does not wait for the mutex
CanLockNoWait(m) == TRUE

\* h.mu.Lock() returns only once no goroutine holds the mutex
CanLock(m) == locks[m] = 0

CallLine(c) == HandleLine(handlers[calls[c].h], calls[c].ctx, calls[c].rec)

CallMutex(c) == handlers[calls[c].h].mu

\* where a goroutine goes once a Handle has returned
AfterCall(todo) == IF todo = <<>> THEN "done" ELSE "next"

\* goroutine g enters Handle of renderer i: everything up to h.mu.Lock()
BeginCall(g, i, ctx, r, todo) ==
    \E empty \in {Len(HandleBuf(handlers[i], ctx, r)) = 0} :
        /\ calls' = Append(calls, NewCall(i, ctx, r, empty, IF empty THEN "nil" ELSE ""))
        /\ heap' = HandleHeap(heap, handlers[i], r)
        /\ gor' = [gor EXCEPT ![g] =
                      [pc |-> IF empty THEN AfterCall(todo) ELSE "lock",
                       call |-> Len(calls) + 1, pos |-> 0, todo |-> todo]]

\* limit bounds the number of calls
HandleBegin(g, i, ctx, r, limit) ==
    /\ gor[g].pc = "idle"
    /\ i \in 1..Len(handlers)
    /\ Len(calls) < limit
    /\ BeginCall(g, i, ctx, r, <<>>)
    /\ UNCHANGED <<options, handlers, lineage, locks, sink, mwVars, gormVars>>

HandleLock(g) ==
    /\ gor[g].pc = "lock"
    /\ CanLock(CallMutex(gor[g].call))
    /\ locks' = [locks EXCEPT ![CallMutex(gor[g].call)] = g]
    /\ gor' = [gor EXCEPT ![g].pc = "write"]
    /\ UNCHANGED <<options, handlers, lineage, heap, sink, calls, mwVars, gormVars>>

\* the writer takes the bytes of one Write whole, or a first half and then the rest
ChunkSizes(pos, rest) == {rest} \cup (IF pos = 0 /\ rest >= 2 THEN {rest \div 2} ELSE {})

\* _, err := h.w.Write(*buf); res is what the writer returns
HandleWrite(g, res) ==
    /\ gor[g].pc = "write"
    /\ res \in WriteResults
    /\ LET c == gor[g].call
           pos == gor[g].pos
       IN  IF res # "nil"
           THEN /\ pos = 0
                /\ calls' = [calls EXCEPT ![c].err = res]
                /\ gor' = [gor EXCEPT ![g].pc = "unlock"]
                /\ UNCHANGED sink
           ELSE \E line \in {CallLine(c)} : \E n \in ChunkSizes(pos, Len(line) - pos) :
                   /\ sink' = Append(sink, [call |-> c,
                                            bytes |-> SubSeq(line, pos + 1, pos + n)])
                   /\ calls' = IF pos + n = Len(line) THEN [calls EXCEPT ![c].err = res]
                               ELSE calls
                   /\ gor' = [gor EXCEPT ![g].pos = pos + n,
                                         ![g].pc = IF pos + n = Len(line) THEN "unlock"
                                                   ELSE "write"]
    /\ UNCHANGED <<options, handlers, lineage, heap, locks, mwVars, gormVars>>

\* return err, with the deferred h.mu.Unlock()
HandleUnlock(g) ==
    /\ gor[g].pc = "unlock"
    /\ locks' = [locks EXCEPT ![CallMutex(gor[g].call)] = 0]
    /\ calls' = [calls EXCEPT ![gor[g].call].done = TRUE]
    /\ gor' = [gor EXCEPT ![g].pc = AfterCall(gor[g].todo)]
    /\ UNCHANGED <<options, handlers, lineage, heap, sink, mwVars, gormVars>>


(***************************************************************************)
(* HandlerMiddleware.                                                      *)
(***************************************************************************)
NewHandlerMiddleware(next, opt) ==
    [source |-> opt.Source, addCxtAttr |-> opt.AddCxtAttr, next |-> next]

\* slog.Any(key, c) picks the kind from the dynamic type of c
AnyAttr(key, c) ==
    Attr(key, CASE c.t = "string" -> "String"
                [] c.t = "int64" -> "Int64"
                [] c.t = "uint64" -> "Uint64"
                [] c.t = "float64" -> "Float64"
                [] c.t = "bool" -> "Bool"
                [] c.t = "Duration" -> "Duration"
                [] c.t = "Time" -> "Time"
                [] OTHER -> "Any", c)

BadKey == <<"!", "B", "A", "D", "K", "E", "Y">>

\* slog's argsToAttrSlice, behind Record.Add and the logging methods: a string
\* and the value after it make an attribute, a last string alone and a value
\* of any other type go under "!BADKEY"
RECURSIVE argsToAttrs(_)
argsToAttrs(args) ==
    IF args = <<>> THEN <<>>
    ELSE IF Head(args).t = "string"
         THEN IF Len(args) = 1 THEN <<Attr(BadKey, "String", Head(args))>>
              ELSE <<AnyAttr(Head(args).s, args[2])>> \o argsToAttrs(Tail(Tail(args)))
    ELSE <<AnyAttr(BadKey, Head(args))>> \o argsToAttrs(Tail(args))

RECURSIVE MwCtxAttrs(_, _)
MwCtxAttrs(addCxtAttr, ctx) ==
    IF addCxtAttr = <<>> THEN <<>>
    ELSE LET v == Head(addCxtAttr)
             c == CtxValue(ctx, v)
         IN  (IF c # Nil THEN argsToAttrs(<<StrV(v), c>>) ELSE <<>>)
               \o MwCtxAttrs(Tail(addCxtAttr), ctx)

MwSqlAttr(ctx) ==
    IF CtxValue(ctx, Sql) # Nil THEN argsToAttrs(<<StrV(Sql), CtxValue(ctx, Sql)>>) ELSE <<>>

\* MwSourceAttr without the test for a source already in the context
MwSourceAttrAlways(h, ctx, rec, addr) ==
    LET f == FrameOf(rec.PC)
    IN  IF h.source /\ f.File # <<>>
        THEN argsToAttrs(<<StrV(Source),
                 SourcePtr(SourceV(getFuncNameSlog(f.Function), ReducePath(f.File), f.Line),
                           addr)>>)
        ELSE <<>>

\* the source attribute: a pointer to a slog.Source allocated at addr
MwSourceAttr(h, ctx, rec, addr) ==
    LET f == FrameOf(rec.PC)
    IN  IF h.source /\ CtxValue(ctx, Source) = Nil /\ f.File # <<>>
        THEN argsToAttrs(<<StrV(Source),
                 SourcePtr(SourceV(getFuncNameSlog(f.Function), ReducePath(f.File), f.Line),
                           addr)>>)
        ELSE <<>>

\* the record HandlerMiddleware.Handle hands to h.next.Handle
MwRecord(h, ctx, rec, addr) ==
    [rec EXCEPT !.Attrs = rec.Attrs \o MwCtxAttrs(h.addCxtAttr, ctx)
                                    \o MwSqlAttr(ctx) \o MwSourceAttr(h, ctx, rec, addr)]

\* the h.next.Handle invocations of call number c
MwForwards(h, ctx, rec, c, addr) ==
    <<[call |-> c, down |-> h.next, ctx |-> ctx, rec |-> MwRecord(h, ctx, rec, addr)]>>

\* what Handle returns when the downstream handler returned res
MwReturn(res) == res

\* MwDerived handing the receiver's first configuration on
MwDerivedKeepsConfig(next) ==
    [source |-> mws[1].source, addCxtAttr |-> mws[1].addCxtAttr, next |-> next]

\* the decorator WithAttrs and WithGroup return around the derived downstream
MwDerived(next) == [source |-> FALSE, addCxtAttr |-> <<>>, next |-> next]

MwRecords ==
    { [Time |-> 60, Level |-> LevelInfo, Message |-> <<"h", "i">>, PC |-> 1, Attrs |-> <<AttrK>>],
      [Time |-> 0, Level |-> LevelError, Message |-> <<>>, PC |-> 0, Attrs |-> <<>>] }

MwCtxs ==
    { EmptyCtx,
      WithValue(WithValue(EmptyCtx, Uid, Int64V(5)), Rid, StrV(<<"r", "1">>)),
      WithValue(WithValue(EmptyCtx, Sql, StrV(SqlText)), Uid, Int64V(5)),
      TraceCtx(Second) }

\* what a downstream handler may return
DownResults == {"nil", "write failed"}

InitMw ==
    /\ mws = <<NewHandlerMiddleware(1, options)>>
    /\ downs = <<[trail |-> <<>>]>>
    /\ fwd = <<>>
    /\ mwCalls = <<>>

\* Handle of decorator m up to its call of h.next.Handle; a source it attaches
\* is allocated at addr
MwCall(m, ctx, r, addr) ==
    /\ fwd' = fwd \o MwForwards(mws[m], ctx, r, Len(mwCalls) + 1, addr)
    /\ mwCalls' = Append(mwCalls, [mw |-> m, ctx |-> ctx, rec |-> r, done |-> FALSE,
                                   res |-> "", ret |-> ""])

MwHandle(m, ctx, r, addr) ==
    /\ m \in 1..Len(mws)
    /\ Len(mwCalls) < MaxForwards
    /\ MwCall(m, ctx, r, addr)
    /\ UNCHANGED <<mws, downs, devVars, gormVars>>

\* h.next.Handle of call c returns res and Handle returns; a goroutine that
\* was inside the call goes on
MwHandleReturn(c, res) ==
    /\ c \in 1..Len(mwCalls)
    /\ ~mwCalls[c].done
    /\ mwCalls' = [mwCalls EXCEPT ![c].done = TRUE, ![c].res = res,
                                  ![c].ret = MwReturn(res)]
    /\ gor' = [g \in DOMAIN gor |->
                  IF gor[g].pc = "mw" /\ gor[g].call = c
                  THEN [gor[g] EXCEPT !.pc = AfterCall(gor[g].todo)]
                  ELSE gor[g]]
    /\ UNCHANGED <<mws, downs, fwd, options, handlers, lineage, heap, locks, sink, calls,
                   gormVars>>

MwWithAttrs(m, attrs) ==
    /\ m \in 1..Len(mws)
    /\ Len(mws) < MaxMiddlewares
    /\ downs' = Append(downs, [trail |-> Append(downs[mws[m].next].trail,
                                  [op |-> "WithAttrs", attrs |-> attrs, name |-> <<>>])])
    /\ mws' = Append(mws, MwDerived(Len(downs) + 1))
    /\ UNCHANGED <<fwd, mwCalls, devVars, gormVars>>

MwWithGroup(m, name) ==
    /\ m \in 1..Len(mws)
    /\ Len(mws) < MaxMiddlewares
    /\ downs' = Append(downs, [trail |-> Append(downs[mws[m].next].trail,
                                  [op |-> "WithGroup", attrs |-> <<>>, name |-> name])])
    /\ mws' = Append(mws, MwDerived(Len(downs) + 1))
    /\ UNCHANGED <<fwd, mwCalls, devVars, gormVars>>

(***************************************************************************)
(* gormLogger.Trace.  A stack is the sequence of frames above Trace, the   *)
(* direct caller first; kind and short are labels the claims refer to.     *)
(***************************************************************************)
MaxFrames == 13

CallersSkip == 3

Frame(fn, file, kind, short) == [Function |-> fn, File |-> file, kind |-> kind, short |-> short]

RuntimeCallers == Frame(<<"r", "u", "n", "t", "i", "m", "e", ".", "C", "a", "l", "l", "e", "r", "s">>, <<"/", "g", "o", "/", "s", "r", "c", "/", "r", "u", "n", "t", "i", "m", "e", "/", "e", "x", "t", "e", "r", "n", ".", "g", "o">>, "self", <<"C", "a", "l", "l", "e", "r", "s">>)

GetGormFuncNameFrame ==
    Frame(<<"a", "p", "p", "/", "l", "o", "g", "g", "e", "r", ".", "g", "e", "t", "G", "o", "r", "m", "F", "u", "n", "c", "N", "a", "m", "e">>, <<"/", "s", "r", "c", "/", "l", "o", "g", "g", "e", "r", "/", "l", "o", "g", "g", "e", "r", ".", "g", "o">>, "self", <<"g", "e", "t", "G", "o", "r", "m", "F", "u", "n", "c", "N", "a", "m", "e">>)

TraceFrame ==
    Frame(<<"a", "p", "p", "/", "l", "o", "g", "g", "e", "r", ".", "(", "*", "g", "o", "r", "m", "L", "o", "g", "g", "e", "r", ")", ".", "T", "r", "a", "c", "e">>, <<"/", "s", "r", "c", "/", "l", "o", "g", "g", "e", "r", "/", "l", "o", "g", "g", "e", "r", ".", "g", "o">>, "self", <<"T", "r", "a", "c", "e">>)

UserF == Frame(<<"a", "p", "p", "/", "s", "v", "c", ".", "f">>, <<"/", "s", "r", "c", "/", "s", "v", "c", "/", "f", ".", "g", "o">>, "user", <<"f">>)

UserG == Frame(<<"a", "p", "p", "/", "s", "v", "c", ".", "g">>, <<"/", "s", "r", "c", "/", "s", "v", "c", "/", "g", ".", "g", "o">>, "user", <<"g">>)

GormFrame ==
    Frame(<<"g", "o", "r", "m", ".", "i", "o", "/", "g", "o", "r", "m", "/", "c", "a", "l", "l", "b", "a", "c", "k", "s", ".", "Q", "u", "e", "r", "y">>, <<"/", "m", "o", "d", "/", "g", "o", "r", "m", ".", "i", "o", "/", "g", "o", "r", "m", "/", "c", "a", "l", "l", "b", "a", "c", "k", "s", "/", "q", "u", "e", "r", "y", ".", "g", "o">>, "gorm", <<"Q", "u", "e", "r", "y">>)

GormTestFrame ==
    Frame(<<"g", "o", "r", "m", ".", "i", "o", "/", "g", "o", "r", "m", ".", "T", "e", "s", "t", "F", "i", "n", "d">>, <<"/", "m", "o", "d", "/", "g", "o", "r", "m", ".", "i", "o", "/", "g", "o", "r", "m", "/", "f", "i", "n", "d", "_", "t", "e", "s", "t", ".", "g", "o">>, "gormtest", <<"T", "e", "s", "t", "F", "i", "n", "d">>)

GenFrame == Frame(<<"a", "p", "p", "/", "d", "a", "o", ".", "(", "*", "u", "s", "e", "r", "D", "o", ")", ".", "F", "i", "r", "s", "t">>, <<"/", "s", "r", "c", "/", "d", "a", "o", "/", "u", "s", "e", "r", ".", "g", "e", "n", ".", "g", "o">>, "gen", <<"F", "i", "r", "s", "t">>)

Stacks ==
    { <<UserF, UserG>>,
      <<GormFrame, GenFrame, UserF, UserG>>,
      <<GormFrame, GormTestFrame, UserF>>,
      <<>>,
      [k \in 1..MaxFrames |-> IF k = MaxFrames THEN UserG ELSE GormFrame],
      [k \in 1..(MaxFrames + 1) |-> IF k = MaxFrames + 1 THEN UserG ELSE GormFrame] }

\* runtime.Callers(skip, pcs[:max]) inside getGormFuncName, called from Trace
Callers(skip, max, stack) ==
    LET full == <<RuntimeCallers, GetGormFuncNameFrame, TraceFrame>> \o stack
    IN  Take(Drop(full, Min(skip, Len(full))), Min(max, Len(full) - Min(skip, Len(full))))

GormPkg == <<"g", "o", "r", "m", ".", "i", "o", "/", "g", "o", "r", "m">>

\* FramePasses without the exception for _test.go files
FramePassesNoTest(frame) ==
    /\ ~Contains(frame.Function, GormPkg)
    /\ ~HasSuffix(frame.File, <<".", "g", "e", "n", ".", "g", "o">>)

\* the filter of getGormFuncName
FramePasses(frame) ==
    /\ ~Contains(frame.Function, GormPkg) \/ HasSuffix(frame.File, <<"_", "t", "e", "s", "t", ".", "g", "o">>)
    /\ ~HasSuffix(frame.File, <<".", "g", "e", "n", ".", "g", "o">>)

RECURSIVE FirstPassing(_)
FirstPassing(frames) ==
    IF frames = <<>> THEN <<>>
    ELSE IF FramePasses(Head(frames)) THEN RemoveFirstDot(Ext(Head(frames).Function))
    ELSE FirstPassing(Tail(frames))

getGormFuncName(stack) == FirstPassing(Callers(CallersSkip, MaxFrames, stack))

\* err.Error() of the *strconv.NumError Atoi returns for s
AtoiError(s) ==
    <<"s", "t", "r", "c", "o", "n", "v", ".", "A", "t", "o", "i", ":", " ",
      "p", "a", "r", "s", "i", "n", "g", " ">> \o Quote(s) \o <<":", " ">>
      \o (IF AtoiRange(s)
          THEN <<"v", "a", "l", "u", "e", " ", "o", "u", "t", " ", "o", "f", " ",
                 "r", "a", "n", "g", "e">>
          ELSE <<"i", "n", "v", "a", "l", "i", "d", " ", "s", "y", "n", "t", "a", "x">>)

\* getFileLine: [file, line, logged]; line is a Go int and logged holds the
\* messages of the slog.Error calls it makes.  line is a result parameter that
\* Atoi's value is assigned to, also when Atoi fails
getFileLine(fileLine) ==
    LET arr == Split(fileLine, ":")
    IN  IF Len(arr) # 2 THEN [file |-> <<>>, line |-> GoInt(0), logged |-> <<>>]
        ELSE [file |-> arr[1], line |-> AtoiVal(arr[2]),
              logged |-> IF AtoiOk(arr[2]) THEN <<>> ELSE <<AtoiError(arr[2])>>]

\* the slog.Source Trace puts in the context
TraceSource(pathLine, stack) ==
    LET fl == getFileLine(SplitFile(pathLine))
    IN  SourceL(getGormFuncName(stack), Join(Base(SplitDir(pathLine)), fl.file), fl.line)

\* time.Since(begin) when the clock reads t
Since(begin, t) == (t - begin) * Second

\* the context Trace hands to the logger
TraceContext(ctx, begin, t, fc, pathLine, stack) ==
    WithValue(WithValue(WithValue(WithValue(ctx, Sql, StrV(fc.sql)),
        Rows, Int64V(fc.rows)), Duration, DurationV(Since(begin, t))),
        Source, TraceSource(pathLine, stack))

NoErr == <<>>

\* TraceEmits logging every trace at info severity
TraceEmitsInfo(tctx, err) ==
    IF err # NoErr THEN <<[ctx |-> tctx, level |-> LevelInfo, msg |-> err]>>
    ELSE <<[ctx |-> tctx, level |-> LevelInfo, msg |-> <<>>]>>

\* the records Trace logs through g.logger: [ctx, level, msg]
TraceEmits(tctx, err) ==
    IF err # NoErr THEN <<[ctx |-> tctx, level |-> LevelError, msg |-> err]>>
    ELSE <<[ctx |-> tctx, level |-> LevelInfo, msg |-> <<>>]>>

\* how often Trace calls fc
TraceFcCalls == 1

FcResults == {[sql |-> SqlText, rows |-> 1], [sql |-> <<"D", "E", "L", "E", "T", "E">>, rows |-> 0]}

Errs == {NoErr, <<"d", "e", "a", "d", "l", "i", "n", "e">>}

\* what utils.FileWithLineNum returns: "file:line" of a caller, or nothing
PathLines == {<<>>, <<"/", "s", "r", "c", "/", "s", "v", "c", "/", "f", ".", "g", "o", ":", "1", "7">>}

TraceCtxs == {EmptyCtx, WithValue(EmptyCtx, Sql, StrV(<<"O", "L", "D">>))}

\* the default logger before any SetDefault: a handler outside this package
OtherDefault == [kind |-> "other", ref |-> 0, sets |-> 0]

InitGorm ==
    /\ now = 0
    /\ traces = <<>>
    /\ loggers = <<>>
    /\ defaultLogger = OtherDefault
    /\ filtered = <<>>

Tick ==
    /\ now < MaxClock
    /\ now' = now + 1
    /\ UNCHANGED <<traces, loggers, defaultLogger, filtered, devVars, mwVars>>

(***************************************************************************)
(* The gorm logger values.  A logger is [type, LogLevel, logger]: type     *)
(* names the dynamic type behind the logger.Interface value and logger the *)
(* handler of its *slog.Logger.  loggers[i] also keeps how it came to be:  *)
(* from is the logger LogMode was called on (0 for NewGormLogger) and      *)
(* showParams the argument its first ancestor was built with.              *)
(***************************************************************************)
LogLevelInfo == 4

LogLevels == 1..LogLevelInfo

\* &gormLogger{Config: logger.Config{LogLevel: logLevel}, logger: log}
gormLogger(logLevel, log) == [type |-> "gormLogger", LogLevel |-> logLevel, logger |-> log]

\* &withOutParams{gormLogger: g}
withOutParams(g) == [type |-> "withOutParams", LogLevel |-> g.LogLevel, logger |-> g.logger]

NewGormLoggerResult(showParams, log) ==
    IF showParams THEN gormLogger(LogLevelInfo, log)
    ELSE withOutParams(gormLogger(LogLevelInfo, log))

\* LogMode has the receiver *gormLogger: on a *withOutParams the promoted
\* method runs on the embedded gormLogger, copies it and returns the copy
LogModeResult(g, logLevel) == gormLogger(logLevel, g.logger)

\* the method set of the dynamic type holds ParamsFilter
HasParamsFilter(g) == g.type = "withOutParams"

\* return sql, nil
ParamsFilterResult(sql, params) == [sql |-> sql, params |-> <<>>]

SqlParams == {<<>>, <<Int64V(7), StrV(<<"x">>)>>}

\* the args of NewGormLogger
GormArgs ==
    { <<>>, <<StrV(<<"k">>), StrV(<<"v">>)>>,
      <<CtxSource, SourcePtr(CtxSource, <<"c", "0", "0", "0", "0", "1", "2", "1", "2", "0">>)>> }

\* slog.With(args) hands the slice over as one argument, which is neither a
\* string nor an Attr: argsToAttr makes it the value of a "!BADKEY" attribute
BadKeyAttrs(args) == argsToAttrs(<<SliceV(args)>>)

\* GetLogger returns slog.Default() and changes nothing
GetLogger == defaultLogger

\* slog.SetDefault(slog.New(NewDevHandler(opts)))
InitDevLogger(opts) ==
    /\ defaultLogger.sets < MaxSetDefaults
    /\ handlers' = Append(handlers, NewDevHandler(opts, Len(handlers) + 1))
    /\ lineage' = Append(lineage, [parent |-> 0, names |-> <<>>, bound |-> <<>>])
    /\ locks' = Append(locks, 0)
    /\ defaultLogger' = [kind |-> "dev", ref |-> Len(handlers) + 1,
                         sets |-> defaultLogger.sets + 1]
    /\ UNCHANGED <<options, heap, sink, calls, gor, mwVars, now, traces, loggers, filtered>>

\* slog.SetDefault(slog.New(NewHandlerMiddleware(slog.NewJSONHandler(...), opts)))
InitLogger(opts) ==
    /\ defaultLogger.sets < MaxSetDefaults
    /\ downs' = Append(downs, [trail |-> <<>>])
    /\ mws' = Append(mws, NewHandlerMiddleware(Len(downs) + 1, opts))
    /\ defaultLogger' = [kind |-> "mw", ref |-> Len(mws) + 1,
                         sets |-> defaultLogger.sets + 1]
    /\ UNCHANGED <<fwd, mwCalls, devVars, now, traces, loggers, filtered>>

\* NewGormLogger: slog.With(args) derives a handler from the default one by
\* WithAttrs, and the new logger keeps it; limit bounds the number of loggers
NewGormLogger(showParams, args, limit) ==
    /\ Len(loggers) < limit
    /\ LET d == defaultLogger
           log == CASE d.kind = "dev" -> [kind |-> "dev", ref |-> Len(handlers) + 1]
                    [] d.kind = "mw" -> [kind |-> "mw", ref |-> Len(mws) + 1]
                    [] OTHER -> [kind |-> "other", ref |-> 0]
       IN  /\ loggers' = Append(loggers,
                  [g |-> NewGormLoggerResult(showParams, log), from |-> 0,
                   showParams |-> showParams])
           /\ IF d.kind = "dev"
              THEN /\ handlers' = Append(handlers,
                          WithAttrsNew(handlers[d.ref], BadKeyAttrs(args), Len(handlers) + 1))
                   /\ lineage' = Append(lineage,
                          [parent |-> d.ref, names |-> lineage[d.ref].names,
                           bound |-> Append(lineage[d.ref].bound,
                                            [attrs |-> BadKeyAttrs(args),
                                             names |-> lineage[d.ref].names])])
                   /\ heap' = Collect(appendAttrsGroups(heap, BadKeyAttrs(args),
                                                        handlers[d.ref].groups), heap)
                   /\ locks' = Append(locks, 0)
              ELSE UNCHANGED <<handlers, lineage, heap, locks>>
           /\ IF d.kind = "mw"
              THEN /\ downs' = Append(downs,
                          [trail |-> Append(downs[mws[d.ref].next].trail,
                                       [op |-> "WithAttrs", attrs |-> BadKeyAttrs(args),
                                        name |-> <<>>])])
                   /\ mws' = Append(mws, MwDerived(Len(downs) + 1))
              ELSE UNCHANGED <<mws, downs>>
    /\ UNCHANGED <<options, sink, calls, gor, fwd, mwCalls, now, traces, defaultLogger,
                   filtered>>

\* the time of day the clock shows at tick t: no reading is the zero time
WallClock(t) == t + 1

\* the records a Trace call logs, first to last: [ctx, level, msg, log, pc].
\* getFileLine logs through slog.Default() with the background context, Trace
\* through the logger of g; pc is the caller slog.Logger records
TraceRecords(g, tctx, err, logged) ==
    [k \in 1..Len(logged) |->
        [ctx |-> EmptyCtx, level |-> LevelError, msg |-> logged[k],
         log |-> [kind |-> defaultLogger.kind, ref |-> defaultLogger.ref], pc |-> 5]]
      \o [k \in 1..Len(TraceEmits(tctx, err)) |->
             [ctx |-> TraceEmits(tctx, err)[k].ctx,
              level |-> TraceEmits(tctx, err)[k].level,
              msg |-> TraceEmits(tctx, err)[k].msg,
              log |-> g.logger,
              pc |-> IF TraceEmits(tctx, err)[k].level = LevelError THEN 4 ELSE 3]]

\* the slog.Record of each, built when the clock reads t
Deliveries(emitted, t) ==
    [k \in 1..Len(emitted) |->
        [log |-> emitted[k].log, ctx |-> emitted[k].ctx,
         rec |-> [Time |-> WallClock(t), Level |-> emitted[k].level,
                  Message |-> emitted[k].msg, PC |-> emitted[k].pc, Attrs |-> <<>>]]]

\* Trace on logger l by goroutine g, up to its first log call; fc runs for dt
\* ticks
Trace(g, l, ctx, begin, fc, err, stack, pathLine, dt) ==
    /\ gor[g].pc = "idle"
    /\ l \in 1..Len(loggers)
    /\ Len(traces) < MaxTraces
    /\ begin <= now
    /\ now + dt <= MaxClock
    /\ now' = now + dt
    /\ LET emitted == TraceRecords(loggers[l].g,
                          TraceContext(ctx, begin, now + dt, fc, pathLine, stack), err,
                          getFileLine(SplitFile(pathLine)).logged)
       IN  /\ traces' = Append(traces,
                  [logger |-> l, ctx |-> ctx, begin |-> begin, at |-> now, fc |-> fc,
                   err |-> err, stack |-> stack, fcCalls |-> TraceFcCalls,
                   emitted |-> emitted])
           /\ gor' = [gor EXCEPT ![g] = [pc |-> "next", call |-> 0, pos |-> 0,
                                         todo |-> Deliveries(emitted, now + dt)]]
    /\ UNCHANGED <<loggers, defaultLogger, filtered, mwVars,
                   options, handlers, lineage, heap, locks, sink, calls>>

\* the next record of goroutine g reaches its handler: a renderer's Handle
\* begins, a decorator's Handle runs up to its downstream call, with addr for
\* what it allocates, a handler outside the package is not followed
Deliver(g, addr) ==
    /\ gor[g].pc = "next"
    /\ LET d == Head(gor[g].todo)
           rest == Tail(gor[g].todo)
       IN  CASE d.log.kind = "dev" ->
                    /\ BeginCall(g, d.log.ref, d.ctx, d.rec, rest)
                    /\ UNCHANGED <<fwd, mwCalls>>
             [] d.log.kind = "mw" ->
                    /\ MwCall(d.log.ref, d.ctx, d.rec, addr)
                    /\ gor' = [gor EXCEPT ![g] = [pc |-> "mw", call |-> Len(mwCalls) + 1,
                                                  pos |-> 0, todo |-> rest]]
                    /\ UNCHANGED <<calls, heap>>
             [] OTHER ->
                    /\ gor' = [gor EXCEPT ![g].pc = AfterCall(rest), ![g].todo = rest]
                    /\ UNCHANGED <<fwd, mwCalls, calls, heap>>
    /\ UNCHANGED <<options, handlers, lineage, locks, sink, mws, downs, gormVars>>

\* g.logger.InfoContext, WarnContext or ErrorContext on logger l by goroutine
\* g, up to the handler: the record carries the time, the caller pc and the
\* attributes made of data
LogContext(g, l, level, pc, ctx, msg, data) ==
    /\ gor[g].pc = "idle"
    /\ l \in 1..Len(loggers)
    /\ gor' = [gor EXCEPT ![g] =
                  [pc |-> "next", call |-> 0, pos |-> 0,
                   todo |-> <<[log |-> loggers[l].g.logger, ctx |-> ctx,
                               rec |-> [Time |-> WallClock(now), Level |-> level,
                                        Message |-> msg, PC |-> pc,
                                        Attrs |-> argsToAttrs(data)]]>>]]
    /\ UNCHANGED <<options, handlers, lineage, heap, locks, sink, calls, mwVars, gormVars>>

Info(g, l, ctx, msg, data) == LogContext(g, l, LevelInfo, 3, ctx, msg, data)

Warn(g, l, ctx, msg, data) == LogContext(g, l, LevelWarn, 6, ctx, msg, data)

Error(g, l, ctx, msg, data) == LogContext(g, l, LevelError, 4, ctx, msg, data)

\* the messages and data of direct calls
GormMsgs == {<<>>, <<"s", "l", "o", "w">>}

GormData == {<<>>, <<StrV(<<"k">>), Int64V(7)>>, <<Int64V(7), StrV(<<"k">>)>>, <<StrV(<<>>), Nil>>}

LogMode(i, logLevel) ==
    /\ i \in 1..Len(loggers)
    /\ Len(loggers) < MaxLoggers
    /\ loggers' = Append(loggers,
           [g |-> LogModeResult(loggers[i].g, logLevel), from |-> i,
            showParams |-> loggers[i].showParams])
    /\ UNCHANGED <<now, traces, defaultLogger, filtered, devVars, mwVars>>

\* gorm calls ParamsFilter on a logger whose type provides it
ParamsFilter(i, sql, params) ==
    /\ i \in 1..Len(loggers)
    /\ HasParamsFilter(loggers[i].g)
    /\ Len(filtered) < MaxFilterCalls
    /\ filtered' = Append(filtered,
           [logger |-> i, sql |-> sql, params |-> params,
            out |-> ParamsFilterResult(sql, params)])
    /\ UNCHANGED <<now, traces, loggers, defaultLogger, devVars, mwVars>>

(***************************************************************************)
(* Specifications.                                                         *)
(***************************************************************************)
Init == InitDevWith(DevOptions) /\ InitMw /\ InitGorm

\* rendering: goroutine 1 handles one of every record and context on a renderer
\* and its first derivations, with derivations made while it is inside Handle
NextRender ==
    \/ \E i \in 1..RenderHandlers, attrs \in AttrLists : WithAttrs(i, attrs, RenderHandlers)
    \/ \E i \in 1..RenderHandlers, name \in GroupNames : WithGroup(i, name, RenderHandlers)
    \/ \E i \in 1..RenderHandlers, ctx \in Ctxs, r \in Records :
           HandleBegin(1, i, ctx, r, MaxCalls)
    \/ HandleLock(1)
    \/ \E res \in WriteResults : HandleWrite(1, res)
    \/ HandleUnlock(1)

SpecRender == Init /\ [][NextRender]_vars


\* derivation: every chain of WithAttrs and WithGroup, a few records rendered
RichOptions == {o \in DevOptions : o.Source}

DeriveRecords == {r \in Records : r.Level = LevelWarn}

DeriveCtxs == {TraceCtx(Second + 1)}

DeriveAttrLists == {<<AttrGroup, AttrErr>>}

DeriveGroupNames == {<<"a">>, <<"b">>}

InitDerive == InitDevWith(RichOptions) /\ InitMw /\ InitGorm

NextDerive ==
    \/ \E i \in 1..MaxHandlers, attrs \in DeriveAttrLists : WithAttrs(i, attrs, MaxHandlers)
    \/ \E i \in 1..MaxHandlers, name \in DeriveGroupNames : WithGroup(i, name, MaxHandlers)
    \/ \E i \in 1..MaxHandlers, ctx \in DeriveCtxs, r \in DeriveRecords :
           HandleBegin(1, i, ctx, r, MaxCalls)
    \/ HandleLock(1)
    \/ \E res \in WriteResults : HandleWrite(1, res)
    \/ HandleUnlock(1)

SpecDerive == InitDerive /\ [][NextDerive]_vars

\* concurrency: goroutines inside Handle on a renderer and its derivations
ConcRecords == {r \in Records : r.Level = LevelInfo}

ConcCtxs == {EmptyCtx}

ConcAttrLists == {<<AttrK>>}

ConcGroupNames == {<<"a">>}

NextConc ==
    \/ \E i \in 1..ConcHandlers, attrs \in ConcAttrLists : WithAttrs(i, attrs, ConcHandlers)
    \/ \E i \in 1..ConcHandlers, name \in ConcGroupNames : WithGroup(i, name, ConcHandlers)
    \/ \E g \in Goroutines, i \in 1..ConcHandlers, ctx \in ConcCtxs, r \in ConcRecords :
           HandleBegin(g, i, ctx, r, NumGoroutines)
    \/ \E g \in Goroutines : HandleLock(g)
    \/ \E g \in Goroutines, res \in WriteResults : HandleWrite(g, res)
    \/ \E g \in Goroutines : HandleUnlock(g)

SpecConc == InitDerive /\ [][NextConc]_vars

\* the context decorator
NextMw ==
    \/ \E m \in 1..MaxMiddlewares, ctx \in MwCtxs, r \in MwRecords, addr \in Addrs :
           MwHandle(m, ctx, r, addr)
    \/ \E c \in DOMAIN mwCalls, res \in DownResults : MwHandleReturn(c, res)
    \/ \E m \in 1..MaxMiddlewares : MwWithAttrs(m, <<AttrK>>)
    \/ \E m \in 1..MaxMiddlewares : MwWithGroup(m, <<"a">>)

SpecMw == Init /\ [][NextMw]_vars

\* the gorm trace adapter: goroutine 1 sets the default logger, builds gorm
\* loggers over it as the clock runs, and then calls Trace on one of them; Trace
\* does not read showParams, which the log-level specification varies
NextGorm ==
    \/ gor[1].pc = "idle" /\ Tick
    \/ gor[1].pc = "idle" /\ \E opts \in RichOptions : InitDevLogger(opts)
    \/ gor[1].pc = "idle" /\ \E opts \in RichOptions : InitLogger(opts)
    \/ gor[1].pc = "idle" /\ NewGormLogger(TRUE, <<>>, GormLoggers)
    \/ \E l \in 1..GormLoggers, ctx \in TraceCtxs, begin \in 0..MaxClock,
          fc \in FcResults, err \in Errs, stack \in Stacks, pathLine \in PathLines,
          dt \in 0..1 :
           Trace(1, l, ctx, begin, fc, err, stack, pathLine, dt)
    \/ \E l \in 1..GormLoggers, ctx \in TraceCtxs, msg \in GormMsgs, data \in GormData :
           Info(1, l, ctx, msg, data)
    \/ \E l \in 1..GormLoggers, ctx \in TraceCtxs, msg \in GormMsgs, data \in GormData :
           Warn(1, l, ctx, msg, data)
    \/ \E l \in 1..GormLoggers, ctx \in TraceCtxs, msg \in GormMsgs, data \in GormData :
           Error(1, l, ctx, msg, data)
    \/ \E addr \in Addrs : Deliver(1, addr)
    \/ \E c \in DOMAIN mwCalls, res \in DownResults : MwHandleReturn(c, res)
    \/ HandleLock(1)
    \/ \E res \in WriteResults : HandleWrite(1, res)
    \/ HandleUnlock(1)

SpecGorm == InitDerive /\ [][NextGorm]_vars

\* the gorm logger under log-level changes
NextMode ==
    \/ \E opts \in DevOptions : InitDevLogger(opts)
    \/ \E opts \in DevOptions : InitLogger(opts)
    \/ \E showParams \in BOOLEAN, args \in GormArgs :
           NewGormLogger(showParams, args, MaxLoggers)
    \/ \E i \in 1..MaxLoggers, logLevel \in LogLevels : LogMode(i, logLevel)
    \/ \E i \in 1..MaxLoggers, fc \in FcResults, params \in SqlParams :
           ParamsFilter(i, fc.sql, params)

SpecMode == InitDerive /\ [][NextMode]_vars

\* copy-on-write: chains of groups deep enough for a groups slice to have spare
\* capacity, siblings derived from one parent, records holding group attributes
CowRecords == {r \in Records : r.Level = LevelWarn}

CowCtxs == {EmptyCtx}

CowAttrLists == {<<AttrGroup>>}

CowGroupNames == {<<"a">>, <<"b">>}

NextCow ==
    \/ \E i \in 1..CowHandlers, attrs \in CowAttrLists : WithAttrs(i, attrs, CowHandlers)
    \/ \E i \in 1..CowHandlers, name \in CowGroupNames : WithGroup(i, name, CowHandlers)
    \/ \E i \in 1..CowHandlers, ctx \in CowCtxs, r \in CowRecords :
           HandleBegin(1, i, ctx, r, MaxCalls)
    \/ HandleLock(1)
    \/ \E res \in WriteResults : HandleWrite(1, res)
    \/ HandleUnlock(1)

SpecCow == InitDerive /\ [][NextCow]_vars


(***************************************************************************)
(* Claims.                                                                 *)
(***************************************************************************)
SecOrder == <<"time", "level", "source", "message", "attrs", "ctx", "bound", "sql">>

\* the bytes of the sections named sec, as the call appended them
SegBytes(segs, sec) ==
    Flatten([k \in 1..Len(segs) |-> IF segs[k].sec = sec THEN segs[k].bytes ELSE <<>>])

InClaimOrder(segs) == Flatten([k \in 1..Len(SecOrder) |-> SegBytes(segs, SecOrder[k])])

PresentSections(segs) == {k \in 1..Len(segs) : segs[k].bytes # <<>>}

\* the bytes the sink holds of call c
Written(c) == Flatten([k \in 1..Len(sink) |-> IF sink[k].call = c THEN sink[k].bytes ELSE <<>>])

\* call c has returned nil
Returned(c) == calls[c].done /\ calls[c].err = "nil"

\* C1: every written line is its present sections in the order timestamp, level,
\* source, message, record attributes, context attributes, bound attributes, SQL
\* block, with a final newline put in the place of a space or newline separator
C1_SectionsInOrder ==
    /\ \A k \in 1..Len(sink) : sink[k].call \in 1..Len(calls)
    /\ \A n \in 1..Len(calls) :
          LET c == calls[n]
              buf == InClaimOrder(c.segs)
          IN  /\ buf # <<>>
              /\ Last(buf) \in {" ", "\n"}
              /\ HasPrefix(Front(buf) \o <<"\n">>, Written(n))
              /\ Returned(n) => Written(n) = Front(buf) \o <<"\n">>
              /\ (SegBytes(c.segs, "time") = <<>>) <=> (c.rec.Time = 0)
              /\ SegBytes(c.segs, "level") # <<>>
              /\ (SegBytes(c.segs, "message") = <<>>) <=> (c.rec.Message = <<>>)
              /\ SegBytes(c.segs, "bound") = handlers[c.h].attrsPrefix
              /\ (SegBytes(c.segs, "sql") = <<>>) <=> (CtxValue(c.ctx, Sql) = Nil)

\* a line of six sections has been written, with record attributes, bound
\* attributes and the SQL block among them
C1_Witness ==
    /\ \E n \in 1..Len(calls) :
          /\ Returned(n)
          /\ Written(n) = CallLine(n)
          /\ Cardinality(PresentSections(calls[n].segs)) >= 6
          /\ SegBytes(calls[n].segs, "bound") # <<>>
          /\ SegBytes(calls[n].segs, "attrs") # <<>>
          /\ SegBytes(calls[n].segs, "sql") # <<>>

\* chunks of call c2 lie between chunks of call c1
Interleaved(c1, c2) ==
    \E i, j, k \in 1..Len(sink) :
        i < j /\ j < k /\ sink[i].call = c1 /\ sink[j].call = c2 /\ sink[k].call = c1

Writing(g) == gor[g].pc \in {"write", "unlock"}

\* C2: calls on one renderer instance write under its mutex: no two of them are
\* inside Write together, their bytes do not interleave, and a finished call has
\* written exactly its line
C2_SameRendererContiguous ==
    /\ \A g \in Goroutines : Writing(g) => locks[CallMutex(gor[g].call)] = g
    /\ \A g1, g2 \in Goroutines :
          (g1 # g2 /\ Writing(g1) /\ Writing(g2))
              => calls[gor[g1].call].h # calls[gor[g2].call].h
    /\ \A c1, c2 \in 1..Len(calls) :
          (c1 # c2 /\ calls[c1].h = calls[c2].h) => ~Interleaved(c1, c2)
    /\ \A c \in 1..Len(calls) :
          calls[c].done => Written(c) = IF calls[c].err = "nil" THEN CallLine(c) ELSE <<>>

\* two calls on the same renderer have both finished, one written in two pieces
C2_Witness ==
    \E c1, c2 \in 1..Len(calls) :
        /\ c1 # c2 /\ calls[c1].h = calls[c2].h
        /\ Returned(c1) /\ Returned(c2)
        /\ Len(sink) >= 3

\* C3: renderers derived from one ancestor share the mutex of the sink, so the
\* writes of calls on any of them never interleave
C3_FamilyWritesExclusive ==
    /\ \A i \in 1..Len(handlers) : handlers[i].w = handlers[1].w
    /\ \A g1, g2 \in Goroutines : (g1 # g2 /\ Writing(g1)) => ~Writing(g2)
    /\ \A c1, c2 \in 1..Len(calls) : c1 # c2 => ~Interleaved(c1, c2)

\* C4: a derived renderer has the sink, level, time format, source flag, slow
\* threshold and context keys of its ancestor
C4_DerivedKeepsConfiguration ==
    \A i \in 1..Len(handlers) :
        /\ handlers[i].w = handlers[1].w
        /\ handlers[i].level = handlers[1].level
        /\ handlers[i].timeFormat = handlers[1].timeFormat
        /\ handlers[i].source = handlers[1].source
        /\ handlers[i].slowThreshold = handlers[1].slowThreshold
        /\ handlers[i].addCxtAttr = handlers[1].addCxtAttr

\* the threshold Options asks for
AskedThreshold == IF options.SlowThreshold = 0 THEN Second ELSE options.SlowThreshold

\* C5: on the renderer NewDevHandler built, the duration block is green for every
\* duration up to the threshold, the threshold included, and red above it
C5_SlowThresholdColour ==
    \A n \in 1..Len(calls) :
        LET c == calls[n]
            d == CtxValue(c.ctx, Duration)
        IN  (Returned(n) /\ c.h = 1 /\ CtxValue(c.ctx, Sql) # Nil /\ d.t = "Duration")
                => Contains(Written(n),
                            <<"\n">> \o (IF d.n <= AskedThreshold THEN Green ELSE Red) \o <<"[">>)

\* a duration equal to the default threshold of one second has been rendered
C5_Witness ==
    \E n \in 1..Len(calls) :
        /\ Returned(n)
        /\ calls[n].h = 1
        /\ options.SlowThreshold = 0
        /\ CtxValue(calls[n].ctx, Sql) # Nil
        /\ CtxValue(calls[n].ctx, Duration) = DurationV(Second)

DotPrefix(names) == Flatten([k \in 1..Len(names) |-> names[k] \o <<".">>])

BoundBytes(bound) ==
    Flatten([k \in 1..Len(bound) |-> appendAttrs(bound[k].attrs, DotPrefix(bound[k].names))])

\* C6: a renderer reached through groups n1..nm renders key k as n1.n2...nm.k, and
\* its bound attributes are those of its WithAttrs calls in binding order, each
\* rendered under the groups in force when it was bound
C6_GroupPrefixComposition ==
    /\ \A i \in 1..Len(handlers) :
          /\ handlers[i].groupPrefix = DotPrefix(lineage[i].names)
          /\ handlers[i].attrsPrefix = BoundBytes(lineage[i].bound)
    /\ \A n \in 1..Len(calls) :
          LET c == calls[n]
          IN  (Returned(n) /\ \E j \in 1..Len(c.rec.Attrs) : c.rec.Attrs[j] = AttrK)
                  => Contains(Written(n),
                              <<" ">> \o Faint \o DotPrefix(lineage[c.h].names) \o AttrK.key
                                  \o <<"=">> \o Reset \o AttrK.val.s)

\* a renderer under groups a then b, holding attributes bound under a alone, has
\* rendered a record
C6_Witness ==
    \E n \in 1..Len(calls) :
        LET i == calls[n].h
        IN  /\ Returned(n)
            /\ lineage[i].names = <<<<"a">>, <<"b">>>>
            /\ Len(lineage[i].bound) = 1
            /\ lineage[i].bound[1].names = <<<<"a">>>>
            /\ \E j \in 1..Len(calls[n].rec.Attrs) : calls[n].rec.Attrs[j] = AttrK


\* the Handle invocations downstream handlers received from call c
ForwardsOf(c) == LET Mine(f) == f.call = c IN SelectSeq(fwd, Mine)

\* the source attribute of a record logged from AppFrame
AppSource == SourceV(<<"R", "u", "n", ".", "f", "u", "n", "c", "1">>, <<"s", "v", "c", "/", "r", "u", "n", ".", "g", "o">>, 42)

\* the slog.Source a pointer points to
PointedSource(p) == [t |-> "Source", s |-> p.s, n |-> p.n, f |-> p.f, big |-> p.big]

\* the keys the claim expects decorator h to attach for ctx and rec
ExpectedKeys(h, ctx, rec) ==
    LET Present(k) == k \in DOMAIN ctx /\ ctx[k] # Nil
    IN  SelectSeq(h.addCxtAttr, Present)
          \o (IF Present(Sql) THEN <<Sql>> ELSE <<>>)
          \o (IF h.source /\ Source \notin DOMAIN ctx /\ rec.PC = 1 THEN <<Source>> ELSE <<>>)

\* C7: Handle forwards one record and returns the downstream result; the record
\* is the original plus the configured context attributes present, in configured
\* order, then sql if present, then source, a pointer to the caller's
\* slog.Source, when enabled, absent from the context and resolvable
C7_MiddlewareEnriches ==
    \A c \in 1..Len(mwCalls) :
        LET call == mwCalls[c]
            h == mws[call.mw]
            fs == ForwardsOf(c)
            n == Len(call.rec.Attrs)
        IN  /\ Len(fs) = 1
            /\ call.done => call.ret = call.res
            /\ fs[1].down = h.next
            /\ fs[1].ctx = call.ctx
            /\ [fs[1].rec EXCEPT !.Attrs = call.rec.Attrs] = call.rec
            /\ Take(fs[1].rec.Attrs, n) = call.rec.Attrs
            /\ LET added == Drop(fs[1].rec.Attrs, n)
               IN  /\ [j \in 1..Len(added) |-> added[j].key]
                          = ExpectedKeys(h, call.ctx, call.rec)
                   /\ \A j \in 1..Len(added) :
                          IF added[j].key = Source
                          THEN /\ added[j].kind = "Any"
                               /\ added[j].val.t = "*Source"
                               /\ added[j].val.addr # <<>>
                               /\ PointedSource(added[j].val) = AppSource
                          ELSE added[j].val = call.ctx[added[j].key]

\* a call with source resolution enabled has attached a configured context
\* attribute, sql and source
C7_Witness ==
    \E c \in 1..Len(mwCalls) :
        /\ mws[mwCalls[c].mw].source
        /\ mwCalls[c].done
        /\ mwCalls[c].ret = "write failed"
        /\ Len(ForwardsOf(c)) = 1
        /\ Len(ForwardsOf(c)[1].rec.Attrs) = Len(mwCalls[c].rec.Attrs) + 3
        /\ Last(ForwardsOf(c)[1].rec.Attrs).val.t = "*Source"

\* C8: a decorator derived by WithAttrs or WithGroup wraps the derived downstream
\* handler and attaches sql alone, whatever the original's configuration, which
\* stays as constructed
C8_DerivedMiddlewarePlain ==
    /\ mws[1] = [source |-> options.Source, addCxtAttr |-> options.AddCxtAttr, next |-> 1]
    /\ downs[1].trail = <<>>
    /\ \A m \in 2..Len(mws) : mws[m].next # 1 /\ downs[mws[m].next].trail # <<>>
    /\ \A c \in 1..Len(mwCalls) :
          mwCalls[c].mw > 1 =>
              \A k \in 1..Len(fwd) :
                  fwd[k].call = c =>
                      LET ctx == mwCalls[c].ctx
                      IN  fwd[k].rec.Attrs
                              = mwCalls[c].rec.Attrs
                                  \o (IF Sql \in DOMAIN ctx
                                      THEN <<Attr(Sql, "String", ctx[Sql])>> ELSE <<>>)

\* a derived decorator of a fully configured original has handled a record with a
\* program counter under a context carrying a configured key and sql but no source
C8_Witness ==
    \E c \in 1..Len(mwCalls) :
        /\ mwCalls[c].mw > 1
        /\ mwCalls[c].done
        /\ options.Source /\ options.AddCxtAttr # <<>>
        /\ mwCalls[c].rec.PC = 1
        /\ Sql \in DOMAIN mwCalls[c].ctx
        /\ Uid \in DOMAIN mwCalls[c].ctx
        /\ Source \notin DOMAIN mwCalls[c].ctx
        /\ Len(ForwardsOf(c)) = 1

\* C9: Trace calls fc once and logs one record through its logger, whose context
\* carries the sql and row count of fc, a duration no smaller than the time from
\* begin to the call, and a source; at error severity with the error text when
\* there is an error, at info severity with an empty message otherwise
C9_TraceEmitsOne ==
    \A t \in 1..Len(traces) :
        LET tr == traces[t]
        IN  /\ tr.fcCalls = 1
            /\ Len(tr.emitted) = 1
            /\ LET e == tr.emitted[1]
               IN  /\ e.log = loggers[tr.logger].g.logger
                   /\ CtxValue(e.ctx, Sql) = StrV(tr.fc.sql)
                   /\ CtxValue(e.ctx, Rows) = Int64V(tr.fc.rows)
                   /\ CtxValue(e.ctx, Duration).t = "Duration"
                   /\ CtxValue(e.ctx, Duration).n >= (tr.at - tr.begin) * Second
                   /\ CtxValue(e.ctx, Source).t = "Source"
                   /\ IF tr.err # NoErr
                      THEN e.level = LevelError /\ e.msg = tr.err
                      ELSE e.level = LevelInfo /\ e.msg = <<>>

\* a trace with an error, begun before the call, whose context already carried
\* sql, on a logger over a dev renderer that has written the record's line
C9_Witness ==
    \E t \in 1..Len(traces) :
        /\ traces[t].err # NoErr
        /\ traces[t].begin < traces[t].at
        /\ Sql \in DOMAIN traces[t].ctx
        /\ Len(traces[t].emitted) = 1
        /\ traces[t].emitted[1].log.kind = "dev"
        /\ \E n \in 1..Len(calls) :
               /\ Returned(n)
               /\ calls[n].ctx = traces[t].emitted[1].ctx
               /\ calls[n].h = traces[t].emitted[1].log.ref
               /\ Written(n) = CallLine(n)

\* the frames of a stack the claim lets the function name come from
Eligible(stack) ==
    {k \in 1..Min(MaxFrames, Len(stack)) : stack[k].kind \in {"user", "gormtest"}}

\* C10: the function of the source is the short name of the nearest of the first
\* 13 frames above Trace that is not a gorm frame outside a _test.go file nor in
\* a .gen.go file, and empty when there is none
C10_NearestUserFrame ==
    \A t \in 1..Len(traces) :
        LET stack == traces[t].stack
            el == Eligible(stack)
        IN  \A e \in 1..Len(traces[t].emitted) :
                CtxValue(traces[t].emitted[e].ctx, Source).f
                    = IF el = {} THEN <<>>
                      ELSE stack[CHOOSE k \in el : \A j \in el : k <= j].short

\* f called Trace and g called f: the function is f
C10_Witness ==
    \E t \in 1..Len(traces) :
        /\ traces[t].stack = <<UserF, UserG>>
        /\ Len(traces[t].emitted) = 1
        /\ CtxValue(traces[t].emitted[1].ctx, Source).f = <<"f">>

\* the attrsPrefix a renderer was constructed with: its parent's followed by
\* the attributes bound last, rendered under the parent's group prefix
BuiltAttrsPrefix(i) ==
    IF lineage[i].parent = 0 THEN <<>>
    ELSE IF lineage[i].bound = lineage[lineage[i].parent].bound
         THEN handlers[lineage[i].parent].attrsPrefix
         ELSE handlers[lineage[i].parent].attrsPrefix
                  \o appendAttrs(Last(lineage[i].bound).attrs,
                                 DotPrefix(Last(lineage[i].bound).names))

\* C11: derivation is copy-on-write: after any WithAttrs, WithGroup and Handle
\* calls on a tree of renderers, every renderer still has the attrsPrefix, the
\* groupPrefix and the groups list contents it was constructed with (no call
\* writes into the storage backing another renderer's groups list)
C11_CopyOnWrite ==
    \A i \in 1..Len(handlers) :
        /\ handlers[i].groupPrefix = DotPrefix(lineage[i].names)
        /\ handlers[i].attrsPrefix = BuiltAttrsPrefix(i)
        /\ SliceElems(heap, handlers[i].groups) = lineage[i].names

\* a reset code starts at position i of s
IsReset(s, i) == i + Len(Reset) - 1 <= Len(s) /\ SubSeq(s, i, i + Len(Reset) - 1) = Reset

\* a colour-opening code starts at position i of s: an escape sequence that
\* is not the reset code
IsOpen(s, i) == s[i] = ansiEsc /\ ~IsReset(s, i)

\* every colour-opening code of s is followed by a reset code with no other
\* colour-opening code and no end of line in between
SpansClosed(s) ==
    \A i \in 1..Len(s) :
        IsOpen(s, i) =>
            \E j \in (i + 1)..Len(s) :
                /\ IsReset(s, j)
                /\ \A k \in (i + 1)..(j - 1) : ~IsOpen(s, k) /\ s[k] # "\n"

\* C12: in every line the renderer assembles, each colour-opening code is
\* closed by a reset code before another colour-opening code or an end of line
C12_ColourSpansClosed ==
    \A c \in 1..Len(calls) : SpansClosed(CallLine(c))

\* C13: a logger descending by LogMode calls from NewGormLogger(false) still
\* provides ParamsFilter, which returns the SQL text with no parameters; one
\* descending from NewGormLogger(true) never provides it
C13_ParamHidingPersists ==
    /\ \A i \in 1..Len(loggers) : HasParamsFilter(loggers[i].g) = ~loggers[i].showParams
    /\ \A k \in 1..Len(filtered) :
           filtered[k].out = [sql |-> filtered[k].sql, params |-> <<>>]

=============================================================================
